---- MODULE Spec2Model ----
(***************************************************************************)
(* SRC-20 processor of the stamp indexer (index_core/src20.py): operation  *)
(* dispatch over the in-block shadow list, running balances, and the fold  *)
(* of a block into the balance table.                                      *)
(*                                                                         *)
(* Decimal amounts are fixed-point integers counted in units of            *)
(* 10^-FracDigits.  A Python dict key that may be absent is tracked in the *)
(* record's `keys` set; None for a numeric input field is the value None.  *)
(***************************************************************************)
EXTENDS Integers, Sequences, FiniteSets, TLC

\* ------------------------------------------------------------------ bounds
FracDigits == 1       \* fractional digits carried by the fixed-point amounts
MaxOps == 3           \* operations processed in one behaviour of Spec
MaxBlocks == 1        \* block commits in one behaviour
ScenarioMaxOps == 4   \* operations processed in one behaviour of SpecScenario
XferMaxOps == 3       \* operations processed in one behaviour of SpecXfer
FrameMaxOps == 3      \* operations processed in one behaviour of SpecFrame
FormatMaxOps == 1     \* payloads checked in one behaviour of SpecFormat
Base64MaxOps == 1     \* strings decoded in one behaviour of SpecBase64
RawMaxOps == 2        \* payloads processed in one behaviour of SpecRaw
PayloadMaxOps == 2    \* payloads processed in one behaviour of SpecPayload

Unit == 10 ^ FracDigits
Half == 5 * (10 ^ (FracDigits - 1))
None == -1
DefaultDec == 18

Ticks == {"dogs", "cats"}
Addrs == {"A", "B", "C", "D"}

VARIABLES
    processed_src20_in_block,  \* the in-block shadow list
    balances,                  \* balances table: tick -> address -> row
    src20_valid_deploy,        \* SRC20_VALID rows with op = DEPLOY, per tick, in insertion order
    src20_valid_minted,        \* SUM(amt) of the SRC20_VALID rows with op = MINT, per tick
    TOTAL_MINTED_CACHE,        \* read-through cache of the mint totals
    block_index,               \* height of the block being processed
    ops_done,                  \* operations processed so far
    raised,                    \* an exception left the processor
    last,                      \* the inputs of the block so far, and what the last
                               \* processed operation read and produced
    StampTableV4,              \* the stamp table: the rows of the committed blocks
    parsed_stamps,             \* the stamp records of the block being processed
    valid_stamps_in_block,     \* the valid stamps of the block being processed
    stamp_counter,             \* the next number of each numbering space
    BLOCK_MESSAGES,            \* the block-messages buffer of exectracer
    indexer,                   \* the indexer processes: where each is, and its open
                               \* database transaction
    db_rows,                   \* the committed rows of the database, per block
    fetch                      \* fetch_api_ledger_data of the block being validated:
                               \* where it is, its locals, and what it gave

src20_vars == <<processed_src20_in_block, balances, src20_valid_deploy, src20_valid_minted,
                TOTAL_MINTED_CACHE>>

stamp_vars == <<StampTableV4, parsed_stamps, valid_stamps_in_block, stamp_counter>>

tracer_vars == <<BLOCK_MESSAGES>>

server_vars == <<indexer, db_rows>>

oracle_vars == <<fetch>>

vars == <<src20_vars, block_index, ops_done, raised, last, stamp_vars, tracer_vars,
          server_vars, oracle_vars>>

\* ----------------------------------------------------------------- helpers
Min(a, b) == IF a <= b THEN a ELSE b

\* mutant: only None is falsy
Truthy_zero_is_true(x) == x /= None

\* Python truthiness of None / Decimal
Truthy(x) == x /= None /\ x /= 0

RemoveAt(s, j) == [k \in 1..(Len(s) - 1) |-> IF k < j THEN s[k] ELSE s[k + 1]]

RECURSIVE TrailingZeros(_)
TrailingZeros(n) == IF n = 0 \/ n % 10 /= 0 THEN 0 ELSE 1 + TrailingZeros(n \div 10)

\* -int(D(amt).normalize().as_tuple().exponent)
DecimalLength(n) == IF n = 0 THEN 0 ELSE FracDigits - TrailingZeros(n)

\* -------------------------------------------------------------- text
\* a Python str is a sequence of one-character strings
Digits == <<"0", "1", "2", "3", "4", "5", "6", "7", "8", "9">>

IsDigit(c) == \E i \in 1..10 : Digits[i] = c

DigitVal(c) == (CHOOSE i \in 1..10 : Digits[i] = c) - 1

AllDigits(s) == \A i \in 1..Len(s) : IsDigit(s[i])

\* int(s) for a string of digits
RECURSIVE DigitsToInt(_)
DigitsToInt(s) ==
    IF s = <<>> THEN 0
    ELSE 10 * DigitsToInt(SubSeq(s, 1, Len(s) - 1)) + DigitVal(s[Len(s)])

\* str(n) for an int n >= 0
RECURSIVE IntToDigits(_)
IntToDigits(n) ==
    IF n < 10 THEN <<Digits[n + 1]>>
    ELSE IntToDigits(n \div 10) \o <<Digits[(n % 10) + 1]>>

\* the k low decimal digits of f, most significant first
RECURSIVE FracDigitsOf(_, _)
FracDigitsOf(f, k) ==
    IF k = 0 THEN <<>> ELSE FracDigitsOf(f \div 10, k - 1) \o <<Digits[(f % 10) + 1]>>

\* s.rstrip(c)
RECURSIVE RStrip(_, _)
RStrip(s, c) ==
    IF s /= <<>> /\ s[Len(s)] = c THEN RStrip(SubSeq(s, 1, Len(s) - 1), c) ELSE s

\* position of the first c in s, Len(s) + 1 if there is none
IndexOf(s, c) ==
    IF \E i \in 1..Len(s) : s[i] = c
    THEN CHOOSE i \in 1..Len(s) : s[i] = c /\ \A j \in 1..(i - 1) : s[j] /= c
    ELSE Len(s) + 1

\* the characters of the strings of the model, in code point order
Alphabet ==
    <<",", "-", ".">> \o Digits
    \o <<";", "A", "B", "C", "D", "_", "a", "c", "d", "g", "o", "s", "t">>

Ord(c) == CHOOSE i \in 1..Len(Alphabet) : Alphabet[i] = c

\* the characters of a tick or an address
Chars(s) ==
    CASE s = "dogs" -> <<"d", "o", "g", "s">>
      [] s = "cats" -> <<"c", "a", "t", "s">>
      [] OTHER -> <<s>>

\* a < b for two str
RECURSIVE StrLess(_, _)
StrLess(a, b) ==
    IF b = <<>> THEN FALSE
    ELSE IF a = <<>> THEN TRUE
    ELSE IF Ord(Head(a)) /= Ord(Head(b)) THEN Ord(Head(a)) < Ord(Head(b))
    ELSE StrLess(Tail(a), Tail(b))

\* s.split(c)
RECURSIVE Split(_, _)
Split(s, c) ==
    LET i == IndexOf(s, c)
    IN  IF i > Len(s) THEN <<s>>
        ELSE <<SubSeq(s, 1, i - 1)>> \o Split(SubSeq(s, i + 1, Len(s)), c)

\* c.join(list)
RECURSIVE Join(_, _)
Join(list, c) ==
    IF list = <<>> THEN <<>>
    ELSE IF Len(list) = 1 THEN list[1]
    ELSE list[1] \o <<c>> \o Join(Tail(list), c)

\* ------------------------------------------------------- Python values
\* a value of a payload dict: key absent, None, str, int, Decimal.  The str of a
\* numeric field is a character sequence (PyText), the str of op one string (PyStr)
Absent == [t |-> "absent"]
PyNone == [t |-> "none"]
PyStr(s) == [t |-> "str", s |-> s]
PyText(s) == [t |-> "text", s |-> s]
PyInt(n) == [t |-> "int", n |-> n]
PyDec(n) == [t |-> "D", n |-> n]

\* str(D) of a non-negative fixed-point Decimal that carries no trailing zeros
DecimalStr(n) ==
    IntToDigits(n \div Unit)
    \o (IF n % Unit = 0 THEN <<>>
        ELSE <<".">> \o RStrip(FracDigitsOf(n % Unit, FracDigits), "0"))

\* str(value)
StrOf(v) ==
    CASE v.t = "text" -> v.s
      [] v.t = "int" -> IF v.n < 0 THEN <<"-">> \o IntToDigits(0 - v.n) ELSE IntToDigits(v.n)
      [] v.t = "D" -> DecimalStr(v.n)
      [] v.t = "none" -> <<"N", "o", "n", "e">>

NoRow == [present |-> FALSE, amt |-> 0, last_update |-> 0]

\* a record as parse_stamp hands it to parse_src20, after Src20Validator.process_values
Src20Dict(op, tick, max, lim, dec, amt, creator, destination) ==
    [op |-> op, tick |-> tick, max |-> max, lim |-> lim, dec |-> dec, amt |-> amt,
     creator |-> creator, destination |-> destination,
     status |-> "", valid |-> 0, keys |-> {},
     total_minted |-> 0, total_balance_creator |-> 0, total_balance_destination |-> 0]

\* ------------------------------------------------------- Src20Processor
STATUS_MESSAGES_is_invalid(code) == code \in {"DE", "ND", "OM", "NA", "BB", "UO", "ID"}

\* p is the processor: its src20_dict, is_valid, and what it has read so far
Processor(d, cache) ==
    [src20_dict |-> d, is_valid |-> TRUE, raised |-> FALSE, cache |-> cache,
     deploy_lim |-> 0, deploy_max |-> 0, dec |-> None, cap |-> 0,
     total_minted |-> 0, balance_creator |-> 0, balance_destination |-> 0,
     requested |-> d.amt, log |-> <<>>]

set_status_and_log(p, code) ==
    [p EXCEPT !.src20_dict.status = code,
              !.log = Append(@, code),
              !.is_valid = IF STATUS_MESSAGES_is_invalid(code) THEN FALSE ELSE @]

\* index_core.database.get_src20_deploy: shadow list first, then the persistent store
get_src20_deploy(tick, shadow, deploys) ==
    LET inblock == {i \in 1..Len(shadow) :
                       shadow[i].tick = tick /\ shadow[i].op = "DEPLOY" /\ shadow[i].valid = 1}
    IN  IF inblock /= {}
        THEN LET i == CHOOSE i \in inblock : \A j \in inblock : i <= j
             IN [lim |-> shadow[i].lim, max |-> shadow[i].max, dec |-> shadow[i].dec]
        ELSE IF Len(deploys[tick]) > 0
             THEN deploys[tick][1]
             ELSE [lim |-> 0, max |-> 0, dec |-> None]

\* index_core.database.get_total_src20_minted_from_db: read through TOTAL_MINTED_CACHE
get_total_src20_minted_from_db(tick, cache, minted) ==
    IF cache[tick].cached
    THEN [total |-> cache[tick].amt, cache |-> cache]
    ELSE [total |-> minted[tick],
          cache |-> [cache EXCEPT ![tick] = [cached |-> TRUE, amt |-> minted[tick]]]]

get_running_mint_total(shadow, tick, cache, minted) ==
    LET hits == {i \in 1..Len(shadow) :
                    shadow[i].tick = tick /\ shadow[i].op = "MINT"
                    /\ "total_minted" \in shadow[i].keys}
        inblock == IF hits = {} THEN 0
                   ELSE shadow[CHOOSE i \in hits : \A j \in hits : j <= i].total_minted
    IN  IF inblock = 0
        THEN get_total_src20_minted_from_db(tick, cache, minted)
        ELSE [total |-> inblock, cache |-> cache]

\* the body of `for address in addresses:` for one prior_tx; j is the position of
\* the list iterator, which moves on by one also after addresses.remove(address)
RECURSIVE ScanAddresses(_, _, _, _)
ScanAddresses(prior_tx, tick, st, j) ==
    IF j > Len(st.addresses) THEN st
    ELSE LET address == st.addresses[j]
             found == IF prior_tx.creator = address /\ prior_tx.tick = tick
                         /\ "total_balance_creator" \in prior_tx.keys
                      THEN <<TRUE, prior_tx.total_balance_creator>>
                      ELSE IF prior_tx.destination = address /\ prior_tx.tick = tick
                              /\ "total_balance_destination" \in prior_tx.keys
                           THEN <<TRUE, prior_tx.total_balance_destination>>
                           ELSE <<FALSE, 0>>
         IN  IF found[1]
             THEN ScanAddresses(prior_tx, tick,
                      [addresses |-> RemoveAt(st.addresses, j),
                       balances |-> Append(st.balances,
                                       [address |-> address, total_balance |-> found[2]])],
                      j + 1)
             ELSE ScanAddresses(prior_tx, tick, st, j + 1)

\* `for prior_tx in reversed(src20_processed_in_block):`
RECURSIVE ScanShadow(_, _, _, _)
ScanShadow(shadow, tick, st, i) ==
    IF i = 0 THEN st
    ELSE ScanShadow(shadow, tick,
             IF shadow[i].valid = 1 THEN ScanAddresses(shadow[i], tick, st, 1) ELSE st,
             i - 1)

\* get_total_user_balance_from_balances_db: the fetched rows, once per requested address
RECURSIVE BalanceRows(_, _, _)
BalanceRows(bal, tick, addresses) ==
    IF addresses = <<>> THEN <<>>
    ELSE (IF bal[tick][Head(addresses)].present
          THEN <<[address |-> Head(addresses), total_balance |-> bal[tick][Head(addresses)].amt]>>
          ELSE <<>>) \o BalanceRows(bal, tick, Tail(addresses))

RECURSIVE Repeat(_, _)
Repeat(s, n) == IF n = 0 THEN <<>> ELSE s \o Repeat(s, n - 1)

get_total_user_balance_from_balances_db(bal, tick, addresses) ==
    Repeat(BalanceRows(bal, tick, addresses), Len(addresses))

\* next((b.total_balance for b in rows if b.address == address), 0)
FirstBalance(rows, address) ==
    LET hits == {i \in 1..Len(rows) : rows[i].address = address}
    IN  IF hits = {} THEN 0 ELSE rows[CHOOSE i \in hits : \A j \in hits : i <= j].total_balance

get_running_user_balances(bal, tick, addresses, shadow) ==
    LET st0 == [addresses |-> addresses, balances |-> <<>>]
        st == IF \E i \in 1..Len(shadow) : shadow[i].tick = tick
              THEN ScanShadow(shadow, tick, st0, Len(shadow))
              ELSE st0
        rows == get_total_user_balance_from_balances_db(bal, tick, st.addresses)
        fromdb == [k \in 1..Len(st.addresses) |->
                      [address |-> st.addresses[k],
                       total_balance |-> FirstBalance(rows, st.addresses[k])]]
    IN  [balances |-> st.balances \o fromdb,
         raised |-> \E k \in 1..Len(fromdb) : fromdb[k].total_balance < 0]

\* create_running_user_balance_dict(...).get(address, 0)
RunningBalanceOf(tuples, address) ==
    LET hits == {i \in 1..Len(tuples) : tuples[i].address = address}
    IN  IF hits = {} THEN 0 ELSE tuples[CHOOSE i \in hits : \A j \in hits : j <= i].total_balance

\* mutant: `decimal_length >= self.dec`
AmtFitsDec_strict(amt, dec) == DecimalLength(amt) < (IF dec /= None THEN dec ELSE DefaultDec)

\* normalize_and_validate_amt does not raise ValueError
AmtFitsDec(amt, dec) == DecimalLength(amt) <= (IF dec /= None THEN dec ELSE DefaultDec)

update_valid_src20_list(p, operation) ==
    LET d == p.src20_dict
        dec == IF p.dec /= None THEN p.dec ELSE DefaultDec
    IN
    IF operation = "TRANSFER" THEN
        IF ~AmtFitsDec(d.amt, p.dec) THEN set_status_and_log(p, "ID")
        ELSE [p EXCEPT !.src20_dict.dec = dec,
                       !.src20_dict.total_balance_creator = p.balance_creator - d.amt,
                       !.src20_dict.total_balance_destination = p.balance_destination + d.amt,
                       !.src20_dict.keys = @ \cup {"total_balance_creator", "total_balance_destination"},
                       !.src20_dict.valid = 1]
    ELSE IF operation = "MINT" THEN
        IF ~AmtFitsDec(d.amt, p.dec) THEN set_status_and_log(p, "ID")
        ELSE IF ~p.cache[d.tick].cached THEN [p EXCEPT !.raised = TRUE]
        ELSE [p EXCEPT !.cache[d.tick].amt = @ + d.amt,
                       !.src20_dict.dec = dec,
                       !.src20_dict.total_minted = p.total_minted + d.amt,
                       !.src20_dict.total_balance_destination = p.balance_creator + d.amt,
                       !.src20_dict.keys = @ \cup {"total_minted", "total_balance_destination"},
                       !.src20_dict.valid = 1]
    ELSE IF operation = "DEPLOY" THEN
        [p EXCEPT !.src20_dict.dec = IF d.dec = None THEN DefaultDec ELSE d.dec,
                  !.src20_dict.valid = 1]
    ELSE [p EXCEPT !.raised = TRUE]

handle_deploy(p) ==
    IF ~Truthy(p.deploy_lim) /\ ~Truthy(p.deploy_max)
    THEN update_valid_src20_list(p, "DEPLOY")
    ELSE set_status_and_log(p, "DE")

\* mutant: the cap is max alone, lim is not applied
EffectiveCap_max_only(deploy_lim, deploy_max) ==
    IF deploy_lim /= None /\ deploy_lim /= 0 /\ deploy_max /= None /\ deploy_max /= 0
    THEN deploy_max ELSE 0

\* `min(D(self.deploy_lim), D(self.deploy_max)) if self.deploy_lim and self.deploy_max else D(0)`
EffectiveCap(deploy_lim, deploy_max) ==
    IF Truthy(deploy_lim) /\ Truthy(deploy_max) THEN Min(deploy_lim, deploy_max) ELSE 0

\* mutant: the remaining supply forgets what was minted
MintAvailable_ignores_total(deploy_max, total_minted) ==
    IF deploy_max /= None /\ deploy_max /= 0 THEN deploy_max ELSE 0

\* `D(self.deploy_max) - total_minted if self.deploy_max else D(0)`
MintAvailable(deploy_max, total_minted) ==
    IF Truthy(deploy_max) THEN deploy_max - total_minted ELSE 0

\* `if total_minted >= D(self.deploy_max) if self.deploy_max else D(0):`
OverMint(total_minted, deploy_max) ==
    IF Truthy(deploy_max) THEN total_minted >= deploy_max ELSE FALSE

handle_mint(p0, shadow, bal, minted) ==
    LET cap == EffectiveCap(p0.deploy_lim, p0.deploy_max)
        tm == get_running_mint_total(shadow, p0.src20_dict.tick, p0.cache, minted)
        total_minted == tm.total
        mint_available == MintAvailable(p0.deploy_max, total_minted)
        p1 == [p0 EXCEPT !.cap = cap, !.cache = tm.cache, !.total_minted = total_minted]
    IN
    IF OverMint(total_minted, p0.deploy_max) THEN set_status_and_log(p1, "OM")
    ELSE
      LET p2 == IF p1.src20_dict.amt > mint_available
                THEN [set_status_and_log(p1, "OMA") EXCEPT !.src20_dict.amt = mint_available]
                ELSE p1
          p3 == IF p2.src20_dict.amt > cap
                THEN [set_status_and_log(p2, "ODL") EXCEPT !.src20_dict.amt = cap]
                ELSE p2
          rb == get_running_user_balances(bal, p3.src20_dict.tick,
                                          <<p3.src20_dict.destination>>, shadow)
          running_user_balance == IF Len(rb.balances) > 0 THEN rb.balances[1].total_balance ELSE 0
          p4 == [p3 EXCEPT !.balance_creator = running_user_balance,
                           !.balance_destination = running_user_balance]
      IN IF rb.raised THEN [p3 EXCEPT !.raised = TRUE]
         ELSE update_valid_src20_list(p4, "MINT")

\* mutant: a transfer of the whole balance is refused
InsufficientBalance_le(running_user_balance_creator, amt) == running_user_balance_creator <= amt

\* `if running_user_balance_creator < D(self.src20_dict["amt"]):`
InsufficientBalance(running_user_balance_creator, amt) == running_user_balance_creator < amt

handle_transfer(p, shadow, bal) ==
    LET d == p.src20_dict
        addresses == IF d.creator = d.destination THEN <<d.creator>>
                     ELSE <<d.creator, d.destination>>
        rb == get_running_user_balances(bal, d.tick, addresses, shadow)
        p1 == [p EXCEPT !.balance_creator = RunningBalanceOf(rb.balances, d.creator),
                        !.balance_destination = RunningBalanceOf(rb.balances, d.destination)]
    IN  IF rb.raised THEN [p EXCEPT !.raised = TRUE]
        ELSE IF InsufficientBalance(p1.balance_creator, d.amt) THEN set_status_and_log(p1, "BB")
        ELSE update_valid_src20_list(p1, "TRANSFER")

validate_and_process_operation(p0, shadow, bal, deploys, minted) ==
    LET operation == p0.src20_dict.op
        op_amt_validations == {"TRANSFER", "MINT"}
        dep == get_src20_deploy(p0.src20_dict.tick, shadow, deploys)
        p == [p0 EXCEPT !.deploy_lim = dep.lim, !.deploy_max = dep.max, !.dec = dep.dec]
    IN
    IF operation \in op_amt_validations /\ ~Truthy(p0.src20_dict.amt)
    THEN set_status_and_log(p0, "NA")
    ELSE IF ~Truthy(p.deploy_lim) /\ ~Truthy(p.deploy_max) /\ operation \in op_amt_validations
    THEN set_status_and_log(p, "ND")
    ELSE IF operation = "DEPLOY" THEN handle_deploy(p)
    ELSE IF operation = "MINT" THEN handle_mint(p, shadow, bal, minted)
    ELSE IF operation = "TRANSFER" THEN handle_transfer(p, shadow, bal)
    ELSE set_status_and_log(p, "UO")

\* parse_src20 on a record that passed the first-pass validator
parse_src20(d, shadow, bal, deploys, minted, cache) ==
    validate_and_process_operation(Processor(d, cache), shadow, bal, deploys, minted)

\* ------------------------------------------------------- Src20Validator
\* a payload dict as parse_stamp hands it to parse_src20: op, max, lim, dec, amt,
\* valid and status are Python values, valid and status being keys the payload
\* itself may carry
RawDict(op, tick, max, lim, dec, amt, creator, destination) ==
    [op |-> op, tick |-> tick, max |-> max, lim |-> lim, dec |-> dec, amt |-> amt,
     creator |-> creator, destination |-> destination,
     valid |-> Absent, status |-> Absent]

\* re.compile(r"^[0-9]+$").match(s); no input carries a line feed
dec_pattern(s) == s /= <<>> /\ AllDigits(s)

\* re.compile(r"^[0-9]*(\.[0-9]*)?$").match(s)
num_pattern(s) ==
    /\ \A i \in 1..Len(s) : IsDigit(s[i]) \/ s[i] = "."
    /\ Cardinality({i \in 1..Len(s) : s[i] = "."}) <= 1

\* D(s) for s matching num_pattern, in units of 10^-FracDigits; decimal.InvalidOperation
\* when s has no digit
DecimalOf(s) ==
    LET dot == IndexOf(s, ".")
        ip == SubSeq(s, 1, dot - 1)
        fp == SubSeq(s, dot + 1, Len(s))
    IN  IF ip = <<>> /\ fp = <<>> THEN [raised |-> TRUE, n |-> 0]
        ELSE [raised |-> FALSE,
              n |-> DigitsToInt(ip) * Unit + DigitsToInt(fp) * (10 ^ (FracDigits - Len(fp)))]

\* x.quantize(Decimal('1'), rounding=ROUND_DOWN) for x >= 0
Quantize(n) == (n \div Unit) * Unit

\* mutant: dec = 19 passes
DecInRange_upto19(n) == 0 <= n /\ n <= 19

\* `0 <= int(value) <= 18`
DecInRange(n) == 0 <= n /\ n <= 18

apply_regex_validation(key, value) ==
    IF key \in {"max", "lim", "amt"} THEN
        LET v0 == IF value.t = "D"
                  THEN [raised |-> FALSE, err |-> FALSE, val |-> value.n]
                  ELSE IF num_pattern(StrOf(value))
                  THEN [raised |-> DecimalOf(StrOf(value)).raised, err |-> FALSE,
                        val |-> DecimalOf(StrOf(value)).n]
                  ELSE [raised |-> FALSE, err |-> TRUE, val |-> None]
        IN  IF key \in {"max", "lim"} /\ ~v0.err /\ ~v0.raised
            THEN [v0 EXCEPT !.val = Quantize(@)] ELSE v0
    ELSE \* key = "dec"; str(value) is all digits where int(value) is read
        IF dec_pattern(StrOf(value)) /\ DecInRange(DigitsToInt(StrOf(value)))
        THEN [raised |-> FALSE, err |-> FALSE, val |-> DigitsToInt(StrOf(value))]
        ELSE [raised |-> FALSE, err |-> TRUE, val |-> None]

\* one iteration of the loop of process_values over a numeric key
ProcessField(key, value) ==
    IF value.t = "absent" THEN [raised |-> FALSE, err |-> FALSE, val |-> None]
    ELSE IF value.t = "text" /\ value.s = <<>>
    THEN [raised |-> FALSE, err |-> FALSE, val |-> None]
    ELSE apply_regex_validation(key, value)

\* value.upper() on the op strings of the payloads
Upper(s) ==
    CASE s = "deploy" -> "DEPLOY"
      [] s = "mint" -> "MINT"
      [] s = "Transfer" -> "TRANSFER"
      [] s = "foo" -> "FOO"
      [] OTHER -> s

\* `src20_dict.get("valid") == 1`
IsOne(v) == (v.t = "int" /\ v.n = 1) \/ (v.t = "D" /\ v.n = Unit)

\* process_values once the loop over the numeric keys has run
ValidatedDict(r, mx, lm, am, dc) ==
    LET errors == {k \in {"max", "lim", "amt", "dec"} :
                      (k = "max" /\ mx.err) \/ (k = "lim" /\ lm.err)
                      \/ (k = "amt" /\ am.err) \/ (k = "dec" /\ dc.err)}
        op == IF r.op.t = "str" /\ r.op.s /= "" THEN Upper(r.op.s) ELSE ""
        carried == IF r.status.t = "str" /\ r.status.s /= "" THEN r.status.s ELSE ""
        d == Src20Dict(op, r.tick, mx.val, lm.val, dc.val, am.val, r.creator, r.destination)
    IN  [\* None.upper() in _process_uppercase_value, or D(".")
         raised |-> r.op.t = "none" \/ mx.raised \/ lm.raised \/ am.raised,
         \* op was "" and is None now
         op_is_none |-> r.op.t = "str" /\ r.op.s = "",
         errors |-> errors,
         src20_dict |-> [d EXCEPT !.valid = IF IsOne(r.valid) THEN 1 ELSE 0,
                                  !.status = IF errors /= {} /\ carried = "" THEN "NN"
                                             ELSE carried]]

process_values(r) ==
    ValidatedDict(r, ProcessField("max", r.max), ProcessField("lim", r.lim),
                  ProcessField("amt", r.amt), ProcessField("dec", r.dec))

\* Src20Processor.process on the validated dict v, p0 being the processor built on it
ProcessValidated(v, p0, shadow, bal, deploys, minted) ==
    IF v.raised THEN [p |-> [p0 EXCEPT !.raised = TRUE], appended |-> FALSE]
    ELSE IF v.errors /= {} THEN [p |-> [p0 EXCEPT !.is_valid = FALSE], appended |-> TRUE]
    ELSE IF v.op_is_none THEN [p |-> [p0 EXCEPT !.raised = TRUE], appended |-> FALSE]
    ELSE [p |-> validate_and_process_operation(p0, shadow, bal, deploys, minted),
          appended |-> FALSE]

ProcessorOf(v, shadow, bal, deploys, minted, cache) ==
    ProcessValidated(v, Processor(v.src20_dict, cache), shadow, bal, deploys, minted)

\* Src20Processor.process; appended tells that process itself put the record on the
\* shadow list
process(r, shadow, bal, deploys, minted, cache) ==
    ProcessorOf(process_values(r), shadow, bal, deploys, minted, cache)

\* -------------------------------------------------------- BalanceStore
\* mutant: a later contribution to the same address replaces the earlier ones
AddTo_overwrites(updates, tick, address, credit, debit) ==
    LET hits == {i \in 1..Len(updates) : updates[i].tick = tick /\ updates[i].address = address}
    IN  IF hits = {}
        THEN Append(updates, [tick |-> tick, address |-> address, credit |-> credit, debit |-> debit])
        ELSE LET i == CHOOSE i \in hits : \A j \in hits : i <= j
             IN [updates EXCEPT ![i].credit = credit, ![i].debit = debit]

\* update_src20_balances: credit / debit of one record folded into balance_updates
AddTo(updates, tick, address, credit, debit) ==
    LET hits == {i \in 1..Len(updates) : updates[i].tick = tick /\ updates[i].address = address}
    IN  IF hits = {}
        THEN Append(updates, [tick |-> tick, address |-> address, credit |-> credit, debit |-> debit])
        ELSE LET i == CHOOSE i \in hits : \A j \in hits : i <= j
             IN [updates EXCEPT ![i].credit = @ + credit, ![i].debit = @ + debit]

RECURSIVE FoldBalanceUpdates(_, _, _)
FoldBalanceUpdates(shadow, i, updates) ==
    IF i > Len(shadow) THEN updates
    ELSE LET d == shadow[i]
             u == IF d.valid = 1 /\ d.op = "MINT"
                  THEN AddTo(updates, d.tick, d.destination, d.amt, 0)
                  ELSE IF d.valid = 1 /\ d.op = "TRANSFER"
                  THEN AddTo(AddTo(updates, d.tick, d.creator, 0, d.amt),
                             d.tick, d.destination, d.amt, 0)
                  ELSE updates
         IN FoldBalanceUpdates(shadow, i + 1, u)

\* mutant: a TRANSFER credits its destination and debits nobody
balance_updates_of_credit_only(shadow) ==
    [i \in 1..Len(FoldBalanceUpdates(shadow, 1, <<>>)) |->
        [FoldBalanceUpdates(shadow, 1, <<>>)[i] EXCEPT !.debit = 0]]

balance_updates_of(shadow) == FoldBalanceUpdates(shadow, 1, <<>>)

\* update_balance_table: INSERT ... ON DUPLICATE KEY UPDATE amt = amt + VALUES(amt)
RECURSIVE update_balance_table(_, _, _, _)
update_balance_table(bal, updates, i, height) ==
    IF i > Len(updates) THEN bal
    ELSE LET u == updates[i]
             net_change == u.credit - u.debit
             row == bal[u.tick][u.address]
             new == IF row.present
                    THEN [present |-> TRUE, amt |-> row.amt + net_change, last_update |-> height]
                    ELSE [present |-> TRUE, amt |-> net_change, last_update |-> height]
         IN update_balance_table([bal EXCEPT ![u.tick][u.address] = new], updates, i + 1, height)

\* mutant: the upsert stamps every stored row, not only the rows of balance_updates
update_src20_balances_stamps_all(bal, height, shadow) ==
    LET updates == balance_updates_of(shadow)
        written == IF updates /= <<>> THEN update_balance_table(bal, updates, 1, height) ELSE bal
    IN  [t \in Ticks |-> [a \in Addrs |->
            IF written[t][a].present THEN [written[t][a] EXCEPT !.last_update = height]
            ELSE written[t][a]]]

update_src20_balances(bal, height, shadow) ==
    LET updates == balance_updates_of(shadow)
    IN  IF updates /= <<>> THEN update_balance_table(bal, updates, 1, height) ELSE bal

\* update_balance_table: net_change and original_amt written into each balance_dict,
\* original_amt being the row's amt read before the row is upserted
RECURSIVE AnnotatedUpdates(_, _, _, _)
AnnotatedUpdates(bal, updates, i, height) ==
    IF i > Len(updates) THEN <<>>
    ELSE LET u == updates[i]
             row == bal[u.tick][u.address]
             annotated == [tick |-> u.tick, address |-> u.address,
                           credit |-> u.credit, debit |-> u.debit,
                           net_change |-> u.credit - u.debit,
                           original_amt |-> IF row.present THEN row.amt ELSE 0]
         IN <<annotated>>
            \o AnnotatedUpdates(update_balance_table(bal, <<u>>, 1, height), updates, i + 1, height)

\* mutant: every amount is written with all its fractional digits
format_decimal_as_stored(amt) ==
    (IF amt < 0 THEN <<"-">> ELSE <<>>)
    \o IntToDigits((IF amt < 0 THEN 0 - amt ELSE amt) \div Unit)
    \o <<".">> \o FracDigitsOf((IF amt < 0 THEN 0 - amt ELSE amt) % Unit, FracDigits)

\* format_decimal: int(amt) for an integer, else the fixed-point string without
\* trailing zeros
format_decimal(amt) ==
    LET sign == IF amt < 0 THEN <<"-">> ELSE <<>>
        abs == IF amt < 0 THEN 0 - amt ELSE amt
    IN  IF abs % Unit = 0 THEN sign \o IntToDigits(abs \div Unit)
        ELSE LET f == sign \o IntToDigits(abs \div Unit) \o <<".">>
                        \o FracDigitsOf(abs % Unit, FracDigits)
                 st == RStrip(RStrip(f, "0"), ".")
             IN IF st = <<>> THEN <<"0">> ELSE st

\* the sort key of a ledger entry: tick_address
LedgerKey(entry) == Split(entry, ",")[1] \o <<"_">> \o Split(entry, ",")[2]

\* sorted(list, key = LedgerKey), stable
RECURSIVE SortedByKey(_)
SortedByKey(list) ==
    IF list = <<>> THEN <<>>
    ELSE LET front == SortedByKey(SubSeq(list, 1, Len(list) - 1))
             e == list[Len(list)]
             n == Cardinality({i \in 1..Len(front) : ~StrLess(LedgerKey(e), LedgerKey(front[i]))})
         IN SubSeq(front, 1, n) \o <<e>> \o SubSeq(front, n + 1, Len(front))

\* mutant: the entries are joined in the order of balance_updates
process_balance_updates_unsorted(balance_updates) ==
    Join([i \in 1..Len(balance_updates) |->
            Chars(balance_updates[i].tick) \o <<",">> \o Chars(balance_updates[i].address)
            \o <<",">>
            \o format_decimal(balance_updates[i].net_change + balance_updates[i].original_amt)],
         ";")

\* process_balance_updates: the canonical ledger string of a block
process_balance_updates(balance_updates) ==
    LET valid_src20_list == [i \in 1..Len(balance_updates) |->
            Chars(balance_updates[i].tick) \o <<",">> \o Chars(balance_updates[i].address)
            \o <<",">>
            \o format_decimal(balance_updates[i].net_change + balance_updates[i].original_amt)]
    IN  Join(SortedByKey(valid_src20_list), ";")

\* rows appended to SRC20_VALID when the block is committed
RECURSIVE ValidDeploysOf(_, _)
ValidDeploysOf(shadow, tick) ==
    IF shadow = <<>> THEN <<>>
    ELSE (IF Head(shadow).valid = 1 /\ Head(shadow).op = "DEPLOY" /\ Head(shadow).tick = tick
          THEN <<[lim |-> Head(shadow).lim, max |-> Head(shadow).max, dec |-> Head(shadow).dec]>>
          ELSE <<>>) \o ValidDeploysOf(Tail(shadow), tick)

RECURSIVE ValidMintSumOf(_, _)
ValidMintSumOf(shadow, tick) ==
    IF shadow = <<>> THEN 0
    ELSE (IF Head(shadow).valid = 1 /\ Head(shadow).op = "MINT" /\ Head(shadow).tick = tick
          THEN Head(shadow).amt ELSE 0) + ValidMintSumOf(Tail(shadow), tick)

\* -------------------------------------------------------------- Decimal
\* a Decimal of any size: sign, integer digits without leading zeros, fractional
\* digits without trailing zeros; NaN, the infinities, and InvalidOperation
BigDec(neg, ip, fp) == [kind |-> "num", neg |-> neg, ip |-> ip, fp |-> fp]
DecNaN == [kind |-> "nan", neg |-> FALSE, ip |-> <<>>, fp |-> <<>>]
DecInf(neg) == [kind |-> "inf", neg |-> neg, ip |-> <<>>, fp |-> <<>>]
InvalidOperation == [kind |-> "invalid", neg |-> FALSE, ip |-> <<>>, fp |-> <<>>]

RECURSIVE LStrip(_, _)
LStrip(s, c) == IF s /= <<>> /\ Head(s) = c THEN LStrip(Tail(s), c) ELSE s

Zeros(k) == [i \in 1..k |-> "0"]

\* "e" in s.lower()
HasSci(s) == \E i \in 1..Len(s) : s[i] \in {"e", "E"}

NaNTexts == {<<"N", "a", "N">>, <<"n", "a", "n">>}
InfTexts == {<<"I", "n", "f", "i", "n", "i", "t", "y">>, <<"i", "n", "f">>}

\* Decimal(s): [sign] digits [. digits] [e [sign] digits], NaN, Infinity
D(s) ==
    LET neg == s /= <<>> /\ Head(s) = "-"
        unsigned == IF s /= <<>> /\ Head(s) \in {"-", "+"} THEN Tail(s) ELSE s
        e == IF HasSci(unsigned)
             THEN CHOOSE i \in 1..Len(unsigned) :
                      /\ unsigned[i] \in {"e", "E"}
                      /\ \A j \in 1..(i - 1) : unsigned[j] \notin {"e", "E"}
             ELSE Len(unsigned) + 1
        mant == SubSeq(unsigned, 1, e - 1)
        exp == SubSeq(unsigned, e + 1, Len(unsigned))
        dot == IndexOf(mant, ".")
        ip == SubSeq(mant, 1, dot - 1)
        fp == SubSeq(mant, dot + 1, Len(mant))
        expneg == exp /= <<>> /\ Head(exp) = "-"
        expdigits == IF exp /= <<>> /\ Head(exp) \in {"-", "+"} THEN Tail(exp) ELSE exp
        mantOK == AllDigits(ip) /\ AllDigits(fp) /\ (ip /= <<>> \/ fp /= <<>>)
        expOK == e > Len(unsigned) \/ (expdigits /= <<>> /\ AllDigits(expdigits))
    IN  IF unsigned \in NaNTexts THEN DecNaN
        ELSE IF unsigned \in InfTexts THEN DecInf(neg)
        ELSE IF ~(mantOK /\ expOK) THEN InvalidOperation
        ELSE LET k == IF e > Len(unsigned) THEN 0 ELSE DigitsToInt(expdigits)
                 all == IF expneg THEN Zeros(k) \o ip ELSE fp \o Zeros(k)
                 newip == IF expneg THEN SubSeq(all, 1, Len(all) - k)
                          ELSE ip \o SubSeq(all, 1, k)
                 newfp == IF expneg THEN SubSeq(all, Len(all) - k + 1, Len(all)) \o fp
                          ELSE SubSeq(all, k + 1, Len(all))
             IN BigDec(neg, LStrip(newip, "0"), RStrip(newfp, "0"))

\* a < b for two digit strings of the same length
RECURSIVE DigitsLess(_, _)
DigitsLess(a, b) ==
    IF a = <<>> THEN FALSE
    ELSE IF Head(a) /= Head(b) THEN DigitVal(Head(a)) < DigitVal(Head(b))
    ELSE DigitsLess(Tail(a), Tail(b))

\* the digits of 2**64 - 1
uint64_max ==
    <<"1", "8", "4", "4", "6", "7", "4", "4", "0", "7",
      "3", "7", "0", "9", "5", "5", "1", "6", "1", "5">>

IsZero(d) == d.kind = "num" /\ d.ip = <<>> /\ d.fp = <<>>

\* mutant: the lower bound of the range test is dropped
GeqZero_unchecked(d) == d.kind \in {"num", "inf"}

\* D("0") <= value
GeqZero(d) ==
    CASE d.kind = "num" -> ~d.neg \/ IsZero(d)
      [] d.kind = "inf" -> ~d.neg
      [] OTHER -> FALSE

\* value <= uint64_max
LeqUint64Max(d) ==
    CASE d.kind = "num" ->
            \/ d.neg
            \/ Len(d.ip) < Len(uint64_max)
            \/ /\ Len(d.ip) = Len(uint64_max)
               /\ DigitsLess(d.ip, uint64_max) \/ (d.ip = uint64_max /\ d.fp = <<>>)
      [] d.kind = "inf" -> d.neg
      [] OTHER -> FALSE

\* --------------------------------------------------------- check_format
\* the height from which a quoted numeric field is read as it is written
CP_P2WSH_FEAT_BLOCK_START == 3

\* the values of a JSON text: null, "s", a number literal as written, the
\* constants NaN / Infinity / -Infinity, true
JNull == [t |-> "jnull"]
JStr(s) == [t |-> "jstr", s |-> s]
JNum(s) == [t |-> "jnum", s |-> s]
JConst(c) == [t |-> "jconst", c |-> c]
JTrue == [t |-> "jtrue"]

\* Python values met in a parsed dict: a float (by its format(value, "f")), a bool,
\* a Decimal of any size, a list
PyFloat(s) == [t |-> "float", s |-> s]
PyBool == [t |-> "bool"]
PyBig(d) == [t |-> "Decimal", d |-> d]
PyList == [t |-> "list"]

\* a payload as check_format receives it: a JSON text (form "json") or a dict;
\* tick is "" when the key is missing
Payload(form, p, op, tick, max, lim, amt, destinations) ==
    [form |-> form, p |-> p, op |-> op, tick |-> tick,
     max |-> max, lim |-> lim, amt |-> amt, destinations |-> destinations]

NumericKeys == {"max", "lim", "amt"}

\* parse_no_sci_float raises ValueError
SciRaises(tok) ==
    tok.t = "jnum" /\ (\E i \in 1..Len(tok.s) : tok.s[i] \in {".", "e", "E"}) /\ HasSci(tok.s)

\* json.loads(..., parse_float = parse_no_sci_float, parse_int = D) of one value
json_loads(tok) ==
    CASE tok.t = "jnull" -> PyNone
      [] tok.t = "jstr" -> PyText(tok.s)
      [] tok.t = "jnum" -> PyBig(D(tok.s))
      [] tok.t = "jconst" ->
            PyFloat(IF tok.c = "NaN" THEN <<"n", "a", "n">>
                    ELSE IF tok.c = "Infinity" THEN <<"i", "n", "f">>
                    ELSE <<"-", "i", "n", "f">>)
      [] tok.t = "jtrue" -> PyBool
      [] OTHER -> tok

\* the Decimal read from a checked field, InvalidOperation if there is none
FieldDecimal(value, height) ==
    CASE value.t = "text" ->
            IF value.s = <<>> THEN D(<<"0">>)
            ELSE IF height >= CP_P2WSH_FEAT_BLOCK_START THEN D(value.s)
            ELSE D(SelectSeq(value.s, LAMBDA c : IsDigit(c) \/ c = "."))
      [] value.t = "int" -> D(StrOf(value))
      [] value.t = "bool" -> D(<<"1">>)
      [] value.t = "float" -> D(value.s)
      [] value.t = "Decimal" -> value.d
      [] OTHER -> InvalidOperation

\* one field of a matching key set makes check_format return None
FieldExcluded(value, height) ==
    \/ value.t = "none"
    \/ LET d == FieldDecimal(value, height)
       IN  \/ d.kind = "invalid"
           \/ d.kind = "nan"
           \/ ~(GeqZero(d) /\ LeqUint64Max(d))

\* the fields checked: those of every key set the keys of the payload include
\* (the key tick is always there, check_format writes it)
KeysToCheck(input_dict) ==
    LET has(k) == input_dict[k] /= Absent
    IN  (IF has("op") /\ has("max") /\ has("lim") THEN {"max", "lim"} ELSE {})
        \cup (IF has("op") /\ has("amt") THEN {"amt"} ELSE {})

\* check_format: None (accepted FALSE) or the dict of the payload
check_format(input, height) ==
    LET fields == NumericKeys \cup {"destinations"}
        value_error == input.form = "json" /\ \E k \in fields : SciRaises(input[k])
        input_dict == IF input.form = "json"
                      THEN [k \in DOMAIN input |->
                               IF k \in fields THEN json_loads(input[k]) ELSE input[k]]
                      ELSE input
        none == [accepted |-> FALSE, input_dict |-> PyNone]
    IN  IF value_error THEN none
        ELSE IF input_dict.p = "src-721" THEN [accepted |-> TRUE, input_dict |-> input_dict]
        ELSE IF input_dict.p /= "src-20" THEN none
        ELSE IF input_dict.tick = "" THEN none
        ELSE IF \E k \in KeysToCheck(input_dict) : FieldExcluded(input_dict[k], height)
        THEN none
        ELSE [accepted |-> TRUE, input_dict |-> input_dict]

\* --------------------------------------------------------------- base64
\* the last height at which a base64 string is padded before it is decoded
STOP_BASE64_REPAIR == CP_P2WSH_FEAT_BLOCK_START - 2

B64Alphabet ==
    <<"A", "B", "C", "D", "E", "F", "G", "H", "I", "J", "K", "L", "M",
      "N", "O", "P", "Q", "R", "S", "T", "U", "V", "W", "X", "Y", "Z",
      "a", "b", "c", "d", "e", "f", "g", "h", "i", "j", "k", "l", "m",
      "n", "o", "p", "q", "r", "s", "t", "u", "v", "w", "x", "y", "z",
      "0", "1", "2", "3", "4", "5", "6", "7", "8", "9", "+", "/">>

IsB64Char(c) == \E i \in 1..64 : B64Alphabet[i] = c

B64Value(c) == (CHOOSE i \in 1..64 : B64Alphabet[i] = c) - 1

\* bytes, or None
NoData == [none |-> TRUE, bytes |-> <<>>]
Data(bytes) == [none |-> FALSE, bytes |-> bytes]

\* binascii.a2b_base64: characters outside the alphabet are skipped, '=' ends the
\* data once the open quad is padded to four, an open quad at the end is an error
RECURSIVE a2b_base64(_, _, _, _, _, _)
a2b_base64(s, i, quad_pos, pads, leftchar, out) ==
    IF i > Len(s) THEN (IF quad_pos /= 0 THEN NoData ELSE Data(out))
    ELSE IF s[i] = "="
    THEN IF quad_pos >= 2 /\ quad_pos + pads + 1 >= 4 THEN Data(out)
         ELSE a2b_base64(s, i + 1, quad_pos, IF quad_pos >= 2 THEN pads + 1 ELSE pads,
                         leftchar, out)
    ELSE IF ~IsB64Char(s[i]) THEN a2b_base64(s, i + 1, quad_pos, pads, leftchar, out)
    ELSE LET v == B64Value(s[i])
         IN  CASE quad_pos = 0 -> a2b_base64(s, i + 1, 1, 0, v, out)
               [] quad_pos = 1 ->
                    a2b_base64(s, i + 1, 2, 0, v % 16, Append(out, leftchar * 4 + v \div 16))
               [] quad_pos = 2 ->
                    a2b_base64(s, i + 1, 3, 0, v % 4, Append(out, leftchar * 16 + v \div 4))
               [] OTHER ->
                    a2b_base64(s, i + 1, 0, 0, 0, Append(out, leftchar * 64 + v))

\* base64.b64decode(s): the bytes, or None for binascii.Error
b64decode(s) == a2b_base64(s, 1, 0, 0, 0, <<>>)

\* pybase64.b64decode(s): the same bytes, or None for binascii.Error
pybase64_b64decode(s) == b64decode(s)

\* check_valid_base64_string: characters of the alphabet, at most two '=' at the
\* end, a length that is a multiple of 4
check_valid_base64_string(s) ==
    /\ Len(s) % 4 = 0
    /\ \E k \in 0..2 :
          /\ k < Len(s)
          /\ \A i \in 1..Len(s) :
                IF i > Len(s) - k THEN s[i] = "=" ELSE IsB64Char(s[i])

\* decode_base64_with_repair: pad to a multiple of four, then decode
decode_base64_with_repair(base64_string) ==
    LET missing_padding == Len(base64_string) % 4
        padded == IF missing_padding /= 0
                  THEN base64_string \o [i \in 1..(4 - missing_padding) |-> "="]
                  ELSE base64_string
    IN  b64decode(padded)

\* decode_base64: (image_data, is_valid_base64) with is_valid_base64 one of
\* "True", "False", "None"
decode_base64(base64_string, height) ==
    LET failed == [image_data |-> NoData, is_valid_base64 |-> "None"]
    IN  IF height >= CP_P2WSH_FEAT_BLOCK_START /\ ~check_valid_base64_string(base64_string)
        THEN failed
        ELSE IF height <= STOP_BASE64_REPAIR
        THEN LET image_data == decode_base64_with_repair(base64_string)
             IN  IF image_data.none THEN failed
                 ELSE [image_data |-> image_data, is_valid_base64 |-> "True"]
        ELSE LET e1 == b64decode(base64_string)
                 e2 == pybase64_b64decode(base64_string)
             IN  IF ~e1.none THEN [image_data |-> e1, is_valid_base64 |-> "True"]
                 ELSE IF ~e2.none THEN [image_data |-> e2, is_valid_base64 |-> "True"]
                 ELSE failed   \* subprocess.run(capture_output, stdout) raises ValueError

\* encode_and_store_file after check_decoded_data_fetch_ident: a file is stored
\* for decoded data, none for None or empty data
StoresFile(image_data) == ~image_data.none /\ image_data.bytes /= <<>>

\* ------------------------------------------------------- stamp pipeline
\* activation heights and sets of the configuration
CP_SRC20_END_BLOCK == 2
STRIP_WHITESPACE == 2
CP_BMN_FEAT_BLOCK_START == 2
SUPPORTED_SUB_PROTOCOLS == {"SRC-20", "SRC-721"}
INVALID_BTC_STAMP_SUFFIX == {"plain", "octet-stream", "js", "css", "x-empty", "json"}

\* a file suffix or an ident that is None
NoText == ""

\* str | None of cpid and asset_longname: a truthy value, and str.startswith
IsText(v) == v.t = "text" /\ v.s /= <<>>
StartsWith(v, c) == Len(v.s) > 0 /\ v.s[1] = c

\* the decoded payload: None, the stamp mapping itself, bytes, text, or the SVG
\* rendering of a sub-protocol record
Decoded(t, p, bytes) == [t |-> t, p |-> p, bytes |-> bytes]
DecodedNone == Decoded("none", "", <<>>)

\* bytes.decode('utf-8') succeeds
RECURSIVE IsUtf8(_, _)
IsUtf8(b, i) ==
    LET cont(j, lo, hi) == j <= Len(b) /\ b[j] >= lo /\ b[j] <= hi
    IN  IF i > Len(b) THEN TRUE
        ELSE IF b[i] < 128 THEN IsUtf8(b, i + 1)
        ELSE IF b[i] >= 194 /\ b[i] <= 223 THEN cont(i + 1, 128, 191) /\ IsUtf8(b, i + 2)
        ELSE IF b[i] >= 224 /\ b[i] <= 239
        THEN /\ cont(i + 1, IF b[i] = 224 THEN 160 ELSE 128, IF b[i] = 237 THEN 159 ELSE 191)
             /\ cont(i + 2, 128, 191)
             /\ IsUtf8(b, i + 3)
        ELSE IF b[i] >= 240 /\ b[i] <= 244
        THEN /\ cont(i + 1, IF b[i] = 240 THEN 144 ELSE 128, IF b[i] = 244 THEN 143 ELSE 191)
             /\ cont(i + 2, 128, 191)
             /\ cont(i + 3, 128, 191)
             /\ IsUtf8(b, i + 4)
        ELSE FALSE

\* json.loads accepts the text: of the texts a short payload can hold, the
\* integer literals between optional whitespace
IsJsonWhitespace(c) == c \in {32, 9, 10, 13}

JsonStripped(b) ==
    LET first == {i \in 1..Len(b) : ~IsJsonWhitespace(b[i])}
    IN  IF first = {} THEN <<>>
        ELSE LET lo == CHOOSE i \in first : \A j \in first : i <= j
                 hi == CHOOSE i \in first : \A j \in first : i >= j
             IN  SubSeq(b, lo, hi)

json_loads_ok(b) ==
    LET s == JsonStripped(b)
        digits == IF Len(s) > 0 /\ s[1] = 45 THEN Tail(s) ELSE s
    IN  /\ Len(digits) > 0
        /\ \A i \in 1..Len(digits) : digits[i] >= 48 /\ digits[i] <= 57
        /\ (Len(digits) > 1 => digits[1] /= 48)

\* magic.from_buffer(bytes, mime=True) of a short buffer
magic_from_buffer(b) ==
    IF b = <<>> THEN <<"application", "x-empty">>
    ELSE IF Len(b) >= 3 /\ SubSeq(b, 1, 3) = <<255, 216, 255>> THEN <<"image", "jpeg">>
    ELSE IF \A i \in 1..Len(b) : b[i] \in {9, 10, 13} \/ (b[i] >= 32 /\ b[i] < 127)
    THEN <<"text", "plain">>
    ELSE <<"application", "octet-stream">>

\* bytes.lstrip()
RECURSIVE lstrip(_)
lstrip(b) ==
    IF b /= <<>> /\ b[1] \in {32, 9, 10, 11, 12, 13} THEN lstrip(Tail(b)) ELSE b

\* check_custom_suffix
check_custom_suffix(bytestring_data) ==
    Len(bytestring_data) >= 3 /\ SubSeq(bytestring_data, 1, 3) = <<66, 77, 78>>

\* get_file_suffix: the custom suffix, the JSON probe, then the MIME subtype
get_file_suffix(bytestring_data, height) ==
    IF height > CP_BMN_FEAT_BLOCK_START /\ check_custom_suffix(bytestring_data) THEN "bmn"
    ELSE IF IsUtf8(bytestring_data, 1) /\ json_loads_ok(bytestring_data) THEN "json"
    ELSE IF height > STRIP_WHITESPACE THEN magic_from_buffer(lstrip(bytestring_data))[2]
    ELSE magic_from_buffer(bytestring_data)[2]

\* get_src_or_img_from_data: a mapping that carries 'p' is the payload itself;
\* otherwise the base64 string of the description is decoded
SrcOrImg(decoded_base64, base64_string, is_valid_base64) ==
    [decoded_base64 |-> decoded_base64, base64_string |-> base64_string,
     is_valid_base64 |-> is_valid_base64]

SrcOrImgOfDecode(base64_string, r) ==
    SrcOrImg(IF r.image_data.none THEN DecodedNone ELSE Decoded("bytes", "", r.image_data.bytes),
             base64_string, r.is_valid_base64)

get_src_or_img_from_data(stamp, height) ==
    CASE stamp.kind = "mapping" -> SrcOrImg(Decoded("dict", stamp.p, <<>>), <<>>, "1")
      [] stamp.kind = "nodescription" -> SrcOrImg(DecodedNone, <<>>, "None")
      [] OTHER -> SrcOrImgOfDecode(stamp.base64_string,
                                   decode_base64(stamp.base64_string, height))

\* get_cpid: the cpid the upstream provided, or None
get_cpid(stamp) == stamp.cpid

\* str.upper of a protocol name
UpperP(p) ==
    CASE p = "src-20" -> "SRC-20"
      [] p = "src-721" -> "SRC-721"
      [] OTHER -> p

\* reformat_src_string_get_ident of a mapping
Ident(ident, file_suffix, decoded_data) ==
    [ident |-> ident, file_suffix |-> file_suffix, decoded_data |-> decoded_data]

reformat_src_string_get_ident(decoded_data) ==
    IF decoded_data.p /= "" /\ UpperP(decoded_data.p) \in SUPPORTED_SUB_PROTOCOLS
    THEN Ident(UpperP(decoded_data.p), "json", decoded_data)
    ELSE Ident("UNKNOWN", NoText, decoded_data)

\* check_decoded_data_fetch_ident: bytes that are UTF-8 become text; a mapping is
\* identified by its protocol, non-empty text and bytes by their suffix, and
\* anything else is UNKNOWN with no suffix.  No buffer here sniffs as zlib.
IdentOfText(text, height) ==
    IF text.bytes /= <<>> THEN Ident("STAMP", get_file_suffix(text.bytes, height), text)
    ELSE Ident("UNKNOWN", NoText, text)

check_decoded_data_fetch_ident(decoded_data, height) ==
    CASE decoded_data.t = "dict" -> reformat_src_string_get_ident(decoded_data)
      [] decoded_data.t = "bytes" /\ IsUtf8(decoded_data.bytes, 1) ->
            IdentOfText(Decoded("str", "", decoded_data.bytes), height)
      [] decoded_data.t = "bytes" -> IdentOfText(decoded_data, height)
      [] OTHER -> Ident("UNKNOWN", NoText, decoded_data)

\* StampData.normalize_file_suffix
normalize_file_suffix(file_suffix) == IF file_suffix = "svg+xml" THEN "svg" ELSE file_suffix

\* StampData.valid_src20 and StampData.valid_src721
valid_src20(ident, height) == ident = "SRC-20" /\ height < CP_SRC20_END_BLOCK
valid_src721(ident) == ident = "SRC-721"

\* check_reissue: the cpid is that of a numbered stamp of the table, or of a
\* valid stamp of this block
check_reissue(table, cpid, in_block) ==
    /\ cpid.t = "text"
    /\ \/ \E i \in 1..Len(table) : table[i].cpid = cpid /\ table[i].stamp /= None
       \/ \E i \in 1..Len(in_block) : in_block[i].cpid = cpid

\* encode_and_store_file: a file is stored for a sub-protocol and for a suffix
encode_and_store_file(ident, file_suffix) ==
    ident \in SUPPORTED_SUB_PROTOCOLS \/ file_suffix /= NoText

\* parse_stamp, lines 437-445: is_btc_stamp, is_cursed and cpid of the record;
\* pre is the is_btc_stamp the sub-protocol branches left
Classified(cpid, is_btc_stamp, is_cursed) ==
    [cpid |-> cpid, is_btc_stamp |-> is_btc_stamp, is_cursed |-> is_cursed]

\* Classify without line 444: the last branch marks the record cursed and keeps
\* the is_btc_stamp of the sub-protocol branch
Classify_keeps_btc(ident, asset_longname, cpid, is_op_return, file_suffix, pre) ==
    IF /\ ident /= "UNKNOWN"
       /\ asset_longname = PyNone
       /\ IsText(cpid)
       /\ StartsWith(cpid, "A")
       /\ ~is_op_return
       /\ file_suffix \notin INVALID_BTC_STAMP_SUFFIX
    THEN Classified(cpid, 1, None)
    ELSE IF asset_longname /= PyNone THEN Classified(asset_longname, None, 1)
    ELSE IF /\ IsText(cpid)
            /\ \/ file_suffix \in INVALID_BTC_STAMP_SUFFIX
               \/ ~StartsWith(cpid, "A")
               \/ is_op_return
    THEN Classified(cpid, pre, 1)
    ELSE Classified(cpid, pre, None)

Classify(ident, asset_longname, cpid, is_op_return, file_suffix, pre) ==
    IF /\ ident /= "UNKNOWN"
       /\ asset_longname = PyNone
       /\ IsText(cpid)
       /\ StartsWith(cpid, "A")
       /\ ~is_op_return
       /\ file_suffix \notin INVALID_BTC_STAMP_SUFFIX
    THEN Classified(cpid, 1, None)
    ELSE IF asset_longname /= PyNone THEN Classified(asset_longname, None, 1)
    ELSE IF /\ IsText(cpid)
            /\ \/ file_suffix \in INVALID_BTC_STAMP_SUFFIX
               \/ ~StartsWith(cpid, "A")
               \/ is_op_return
    THEN Classified(cpid, None, 1)
    ELSE Classified(cpid, pre, None)

\* get_next_stamp_number: the next number of a numbering space, and the counters
\* after it
Numbered(stamp, counters) == [stamp |-> stamp, counters |-> counters]

get_next_stamp_number(counters, identifier) ==
    Numbered(counters[identifier], [counters EXCEPT ![identifier] = @ + 1])

\* parse_stamp, lines 447-452
NumberOf_one_counter(k, counters) ==
    IF k.is_btc_stamp = 1 \/ k.is_cursed = 1 THEN get_next_stamp_number(counters, "stamp")
    ELSE Numbered(None, counters)

NumberOf(k, counters) ==
    IF k.is_btc_stamp = 1 THEN get_next_stamp_number(counters, "stamp")
    ELSE IF k.is_cursed = 1 THEN get_next_stamp_number(counters, "cursed")
    ELSE Numbered(None, counters)

\* create_valid_stamp_dict, or the empty dict
NoValidStamp == [present |-> FALSE, cpid |-> PyNone, stamp_number |-> None]
create_valid_stamp_dict(stamp_number, cpid) ==
    [present |-> TRUE, cpid |-> cpid, stamp_number |-> stamp_number]

\* what parse_stamp leaves: the four values it returns, or the exception
StampRow(c, ident, file_suffix, k, stamp, is_valid_base64) ==
    [cpid |-> k.cpid, stamp |-> stamp, is_btc_stamp |-> k.is_btc_stamp,
     is_cursed |-> k.is_cursed, ident |-> ident, file_suffix |-> file_suffix,
     asset_longname |-> c.asset_longname, is_op_return |-> c.is_op_return,
     is_valid_base64 |-> is_valid_base64]

NoStampRow ==
    [cpid |-> PyNone, stamp |-> None, is_btc_stamp |-> None, is_cursed |-> None,
     ident |-> NoText, file_suffix |-> NoText, asset_longname |-> PyNone,
     is_op_return |-> FALSE, is_valid_base64 |-> "None"]

Parsed(outcome, stamp_data, valid_stamp, counters, stored) ==
    [outcome |-> outcome, stamp_data |-> stamp_data, valid_stamp |-> valid_stamp,
     counters |-> counters, stored |-> stored]

FourNone(counters) == Parsed("None", NoStampRow, NoValidStamp, counters, FALSE)
TypeError(counters) == Parsed("TypeError", NoStampRow, NoValidStamp, counters, FALSE)

AfterNumber(c, src, ident, file_suffix, k, n) ==
    Parsed("stamp",
           StampRow(c, ident, file_suffix, k, n.stamp, src.is_valid_base64),
           IF IsText(k.cpid) /\ k.is_btc_stamp = 1
           THEN create_valid_stamp_dict(n.stamp, k.cpid) ELSE NoValidStamp,
           n.counters,
           encode_and_store_file(ident, file_suffix))

AfterClassify(c, src, ident, file_suffix, k, counters) ==
    AfterNumber(c, src, ident, file_suffix, k, NumberOf(k, counters))

AfterBranches(c, src, ident, file_suffix, pre, counters) ==
    AfterClassify(c, src, ident, file_suffix,
                  Classify(ident, c.asset_longname, get_cpid(c.stamp), c.is_op_return,
                           file_suffix, pre),
                  counters)

\* parse_stamp, lines 421-435: check_format is called without the height it
\* requires, which is a TypeError; the SRC-721 record is rendered as SVG
AfterIdent(c, src, id, counters, height) ==
    IF valid_src20(id.ident, height) THEN TypeError(counters)
    ELSE IF valid_src721(id.ident) THEN AfterBranches(c, src, id.ident, "svg", 1, counters)
    ELSE AfterBranches(c, src, id.ident, normalize_file_suffix(id.file_suffix), None, counters)

AfterSrcOrImg(c, src, counters, height) ==
    AfterIdent(c, src, check_decoded_data_fetch_ident(src.decoded_base64, height),
               counters, height)

parse_stamp(c, table, in_block, counters, height) ==
    IF ~c.valid_data THEN FourNone(counters)
    ELSE IF check_reissue(table, get_cpid(c.stamp), in_block) THEN FourNone(counters)
    ELSE AfterSrcOrImg(c, get_src_or_img_from_data(c.stamp, height), counters, height)

\* ------------------------------------------------------------ exectracer
\* activation heights of the features the tracer consults
SUBASSETS_START == 2
ENHANCED_SENDS_START == 3

\* util.enabled(feature) at the height being processed
enabled(feature, height) ==
    CASE feature = "subassets" -> height >= SUBASSETS_START
      [] feature = "enhanced_sends" -> height >= ENHANCED_SENDS_START

\* a statement in lower case: the words before its first '(' (sql.split('(')[0]
\* split at ' ') and the words after it.  A word of the statements here holds
\* 'insert' or 'update' only when it is that word
Sql(array, rest) == [array |-> array, rest |-> rest]

Contains(sql, word) ==
    \/ \E i \in 1..Len(sql.array) : sql.array[i] = word
    \/ \E i \in 1..Len(sql.rest) : sql.rest[i] = word

startswith(sql, first, second) ==
    Len(sql.array) >= 2 /\ sql.array[1] = first /\ sql.array[2] = second

\* bindings: None, a tuple of values, or a dict as its items in insertion order
NoBindings == [t |-> "none", items |-> <<>>]
TupleBindings(values) == [t |-> "tuple", items |-> values]
DictBindings(items) == [t |-> "dict", items |-> items]

\* the keys of the dicts, in the order of str
BindingKeys == <<"asset", "asset_longname", "memo", "quantity">>
KeyRank(k) == CHOOSE i \in 1..Len(BindingKeys) : BindingKeys[i] = k

\* sorted(bindings.items())
RECURSIVE sorted_items(_)
sorted_items(items) ==
    IF items = <<>> THEN <<>>
    ELSE LET front == sorted_items(SubSeq(items, 1, Len(items) - 1))
             e == items[Len(items)]
             n == Cardinality({i \in 1..Len(front) : KeyRank(front[i][1]) <= KeyRank(e[1])})
         IN  SubSeq(front, 1, n) \o <<e>> \o SubSeq(front, n + 1, Len(front))

\* del bindings[key]
Del(items, key) == SelectSeq(items, LAMBDA kv : kv[1] /= key)

skip_tables ==
    {"blocks", "transactions", "balances", "messages", "mempool", "assets",
     "new_sends", "new_issuances"}

\* the tables of which an update is not logged
skip_tables_of_update ==
    skip_tables \cup {"orders", "bets", "rps", "order_matches", "bet_matches", "rps_matches"}

\* bindings[0] of the call of log.message: the exception it raises, or "" for none
FirstBinding(bindings) ==
    CASE bindings.t = "none" -> "TypeError"
      [] bindings.t = "dict" -> "KeyError"
      [] bindings.items = <<>> -> "IndexError"
      [] OTHER -> ""

\* what exectracer leaves: True or the exception, and the buffer
Traced(outcome, messages) == [outcome |-> outcome, messages |-> messages]

\* lines 63-75: the bindings an entry serializes
StrippedBindings(category, bindings, height) ==
    IF bindings.t = "none" THEN <<"None">>
    ELSE IF bindings.t = "tuple" THEN <<bindings.items>>
    ELSE IF category = "issuances" /\ ~enabled("subassets", height)
    THEN sorted_items(Del(bindings.items, "asset_longname"))
    ELSE IF category = "sends" /\ ~enabled("enhanced_sends", height)
    THEN sorted_items(Del(bindings.items, "memo"))
    ELSE sorted_items(bindings.items)

\* the entry '{}{}{}'.format(command, category, sorted_bindings), as its three parts
Entry(command, category, sorted_bindings) == <<command, category, sorted_bindings>>

\* lines 44-76, for a command and a category
Record(command, category, bindings, messages, height) ==
    IF category \notin (IF command = "update" THEN skip_tables_of_update ELSE skip_tables)
       /\ FirstBinding(bindings) /= ""
    THEN Traced(FirstBinding(bindings), messages)
    ELSE IF category \notin skip_tables
    THEN Traced("True", Append(messages,
                    Entry(command, category, StrippedBindings(category, bindings, height))))
    ELSE Traced("True", messages)

exectracer(sql, bindings, messages, height) ==
    IF startswith(sql, "create", "trigger") \/ startswith(sql, "drop", "trigger")
    THEN Traced("True", messages)
    ELSE IF Contains(sql, "insert")
    THEN Record(sql.array[1], sql.array[3], bindings, messages, height)
    ELSE IF Contains(sql, "update")
    THEN Record(sql.array[1], sql.array[2], bindings, messages, height)
    ELSE Traced("True", messages)

\* ---------------------------------------------------------------- server
ServerMaxBlocks == 2  \* blocks above the first that the indexers follow

Procs == {"p1", "p2"}

\* an indexer process: not started, initialised, following blocks, or exited; the
\* block it is processing (0 for none), the writes of that block it has issued,
\* and those of them its connection has not committed
IndexerAt(pc, block, step, pending) ==
    [pc |-> pc, block |-> block, step |-> step, pending |-> pending]

Off == IndexerAt("off", 0, 0, <<>>)

\* the rows of one block: its transactions, its row of table blocks with the
\* indexed flag, and its stamps
BlockRow(transactions, block, indexed, stamps) ==
    [transactions |-> transactions, block |-> block, indexed |-> indexed, stamps |-> stamps]

NoBlockRow == BlockRow(FALSE, FALSE, 0, FALSE)
IndexedRow == BlockRow(TRUE, TRUE, 1, TRUE)

\* BlockWrites with the indexed flag set before the stamps are inserted
BlockWrites_indexed_first == <<"transactions", "blocks", "indexed", "stamps">>

\* the writes of one block, in the order they are issued: the transactions and
\* the blocks row by the block loop, the stamps by parse_stamps_to_stamp_table,
\* the indexed flag by update_parsed_block
BlockWrites == <<"transactions", "blocks", "stamps", "indexed">>

\* the writes that are followed by a COMMIT (src/stamp.py lines 294 and 304)
CommitPoints == {"stamps", "indexed"}

Written(row, write) ==
    CASE write = "transactions" -> [row EXCEPT !.transactions = TRUE]
      [] write = "blocks" -> [row EXCEPT !.block = TRUE]
      [] write = "stamps" -> [row EXCEPT !.stamps = TRUE]
      \* UPDATE blocks SET indexed = 1 WHERE block_index = h: the row, if it is there
      [] write = "indexed" -> IF row.block THEN [row EXCEPT !.indexed = 1] ELSE row

RECURSIVE Committed(_, _, _)
Committed(rows, h, writes) ==
    IF writes = <<>> THEN rows
    ELSE Committed([rows EXCEPT ![h] = Written(@, Head(writes))], h, Tail(writes))

\* blocks.last_db_index: the highest block with a row in table blocks
last_db_index(rows) ==
    CHOOSE h \in DOMAIN rows : rows[h].block /\ \A g \in DOMAIN rows : rows[g].block => g <= h

\* purgue_block_db: the transactions, the blocks row and the stamps of the block
\* are deleted, and the deletion is committed
purgue_block_db(rows, h) == [rows EXCEPT ![h] = NoBlockRow]

\* is_prev_block_parsed(db, h): whether block h - 1 is indexed, and the rows
\* after the call
is_prev_block_parsed(rows, h) ==
    IF rows[h - 1].indexed = 1 THEN [parsed |-> TRUE, rows |-> rows]
    ELSE [parsed |-> FALSE, rows |-> purgue_block_db(rows, h - 1)]

\* ------------------------------------------------- the SVG of an SRC-20
priority_keys == <<"p", "op", "tick">>

\* sort_keys: the index of a priority key, len(priority_keys) for any other key
sort_keys(key) ==
    IF \E i \in 1..Len(priority_keys) : priority_keys[i] = key
    THEN (CHOOSE i \in 1..Len(priority_keys) : priority_keys[i] = key) - 1
    ELSE Len(priority_keys)

\* sorted(keys, key=sort_keys): stable, keys of one rank keep their order
RECURSIVE sorted_by_sort_keys(_)
sorted_by_sort_keys(keys) ==
    IF keys = <<>> THEN <<>>
    ELSE LET front == sorted_by_sort_keys(SubSeq(keys, 1, Len(keys) - 1))
             e == keys[Len(keys)]
             n == Cardinality({i \in 1..Len(front) : sort_keys(front[i]) <= sort_keys(e)})
         IN  SubSeq(front, 1, n) \o <<e>> \o SubSeq(front, n + 1, Len(front))

\* tick.upper()
TickUpper(tick) ==
    CASE tick = "dogs" -> "DOGS"
      [] tick = "cats" -> "CATS"
      [] OTHER -> tick

\* mutant: lim is inserted before max
dict_to_use_lim_first(input_dict) ==
    LET op == Upper(input_dict.op)
        head == << <<"p", UpperP(input_dict.p)>>, <<"op", op>>,
                   <<"tick", TickUpper(input_dict.tick)>> >>
    IN  CASE op = "DEPLOY" ->
               head \o << <<"lim", input_dict.lim>>, <<"max", input_dict.max>> >>
          [] op \in {"MINT", "TRANSFER"} -> head \o << <<"amt", input_dict.amt>> >>
          [] OTHER -> <<>>

\* dict_to_use of generate_srcbackground_svg: its items in insertion order
dict_to_use(input_dict) ==
    LET op == Upper(input_dict.op)
        head == << <<"p", UpperP(input_dict.p)>>, <<"op", op>>,
                   <<"tick", TickUpper(input_dict.tick)>> >>
    IN  CASE op = "DEPLOY" ->
               head \o << <<"max", input_dict.max>>, <<"lim", input_dict.lim>> >>
          [] op \in {"MINT", "TRANSFER"} -> head \o << <<"amt", input_dict.amt>> >>
          [] OTHER -> <<>>

ValueOf(items, key) == (CHOOSE i \in 1..Len(items) : items[i][1] = key)

\* the items that json.dumps renders, in their order:
\* {k: dict_to_use[k] for k in sorted(dict_to_use.keys(), key=sort_keys)}
pretty_json(input_dict) ==
    LET items == dict_to_use(input_dict)
        sorted_keys == sorted_by_sort_keys([i \in 1..Len(items) |-> items[i][1]])
    IN  [i \in 1..Len(sorted_keys) |-> items[ValueOf(items, sorted_keys[i])]]

\* ------------------------------------------------------------- the cpid
\* an int of any size is the sequence of its bytes, most significant first
IsZeroInt(num) == \A i \in 1..Len(num) : num[i] = 0

\* divmod(num, base), one byte of num at a time; the quotient without leading
\* zero bytes
RECURSIVE divmod(_, _, _, _)
divmod(num, base, quotient, rem) ==
    IF num = <<>> THEN [num |-> quotient, rem |-> rem]
    ELSE divmod(Tail(num), base,
                IF quotient = <<>> /\ (rem * 256 + Head(num)) < base THEN <<>>
                ELSE Append(quotient, (rem * 256 + Head(num)) \div base),
                (rem * 256 + Head(num)) % base)

characters ==
    Digits \o
    <<"a", "b", "c", "d", "e", "f", "g", "h", "i", "j", "k", "l", "m",
      "n", "o", "p", "q", "r", "s", "t", "u", "v", "w", "x", "y", "z">> \o
    <<"A", "B", "C", "D", "E", "F", "G", "H", "I", "J", "K", "L", "M",
      "N", "O", "P", "Q", "R", "S", "T", "U", "V", "W", "X", "Y", "Z">>

\* the loop of base62_encode with reversed(result): the digit of the last
\* division comes first
RECURSIVE EncodeLoop(_, _)
EncodeStep(divided, encoded) ==
    EncodeLoop(divided.num, <<characters[divided.rem + 1]>> \o encoded)

EncodeLoop(num, encoded) ==
    IF IsZeroInt(num) THEN encoded
    ELSE EncodeStep(divmod(num, Len(characters), <<>>, 0), encoded)

base62_encode(num) == IF IsZeroInt(num) THEN <<characters[1]>> ELSE EncodeLoop(num, <<>>)

\* ord(c) of the characters of a transaction hash, of a number and of "|"
CodePoint(c) ==
    CASE IsDigit(c) -> 48 + DigitVal(c)
      [] c = "|" -> 124
      [] OTHER -> 86 + (CHOOSE i \in 1..Len(characters) : characters[i] = c)

DigestSize == 32

\* hashlib.sha256(s.encode()).digest(): 32 bytes that are a function of the
\* bytes of s. The function here stands for SHA-256; nothing but its being a
\* function of s with 32 bytes is used
RECURSIVE Mix(_, _, _)
Mix(s, i, acc) ==
    IF s = <<>> THEN acc % 256
    ELSE Mix(Tail(s), i, (acc * 31 + CodePoint(Head(s)) * (i + 7) + i) % 65536)

sha256(s) == [i \in 1..DigestSize |-> Mix(s, i, 17)]

Raises(exception) == [raised |-> exception, value |-> <<>>]
Returns(value) == [raised |-> "none", value |-> value]

\* create_base62_hash(str1, str2, length)
create_base62_hash(str1, str2, length) ==
    IF ~(12 <= length /\ length <= 20) THEN Raises("ValueError")
    ELSE LET base62_hash == base62_encode(sha256(str1 \o <<"|">> \o str2))
         IN  Returns(SubSeq(base62_hash, 1, Min(length, Len(base62_hash))))

\* the transaction hashes of the model, and its transaction and block indexes
TxHashes == {<<"a", "0">>, <<"f", "f">>}
TxNumbers == {0, 7, 12, 120}

\* create_base62_hash(tx_hash, str(n), 20) of the transactions of the model,
\* computed once
Base62HashOf ==
    [tx_hash \in TxHashes, n \in TxNumbers |->
        create_base62_hash(tx_hash, IntToDigits(n), 20).value]

\* get_cpid of src/stamp.py: the cpid of the stamp, and the hash of the
\* transaction hash and the transaction index
get_cpid_of_tx(stamp_cpid, tx_index, tx_hash) ==
    [cpid |-> stamp_cpid, stamp_hash |-> Base62HashOf[tx_hash, tx_index]]

\* get_cpid of index_core/stamp.py: the cpid of the stamp, and the hash of the
\* transaction hash and the block index
get_cpid_of_block(stamp_cpid, block_index_of_tx, tx_hash) ==
    [cpid |-> stamp_cpid, stamp_hash |-> Base62HashOf[tx_hash, block_index_of_tx]]

\* "cpid" of the row of parse_stamps_to_stamp_table
parsed_cpid(got) == IF got.cpid /= PyNone THEN got.cpid ELSE PyText(got.stamp_hash)

\* ------------------------------------------------------ ledger validation
\* what fetch_api_ledger_data gives: the hash and the ledger string of the
\* oracle, or an exception once the retries are used up
ApiData(hash, validation) == [raised |-> FALSE, hash |-> hash, validation |-> validation]
ApiFailure == [raised |-> TRUE, hash |-> "", validation |-> <<>>]

\* parsed[tick][address] = balance
PutBalance(parsed, tick, address, balance) ==
    {b \in parsed : <<b[1], b[2]>> /= <<tick, address>>} \cup {<<tick, address, balance>>}

\* the loop of parse_balances over the entries: the unpacking of an entry that
\* has not three fields raises ValueError, D of a text that is no number raises
\* decimal.InvalidOperation
RECURSIVE ParseEntries(_, _)
ParseEntries(entries, parsed) ==
    IF entries = <<>> THEN [raised |-> "none", balances |-> parsed]
    ELSE LET fields == Split(Head(entries), ",")
         IN  IF Len(fields) /= 3 THEN [raised |-> "ValueError", balances |-> {}]
             ELSE IF D(fields[3]) = InvalidOperation
             THEN [raised |-> "InvalidOperation", balances |-> {}]
             ELSE ParseEntries(Tail(entries),
                               PutBalance(parsed, fields[1], fields[2], D(fields[3])))

parse_balances(balance_str) == ParseEntries(Split(balance_str, ";"), {})

BalanceOf(parsed, tick, address) ==
    IF \E b \in parsed : b[1] = tick /\ b[2] = address
    THEN (CHOOSE b \in parsed : b[1] = tick /\ b[2] = address)[3]
    ELSE D(<<"0">>)

\* compare_balances: the (address, tick) pairs whose balances differ, with the
\* two balances; a pair that one side lacks counts as 0 there
compare_balances(local_balances, api_balances) ==
    LET ticks == {b[1] : b \in local_balances \cup api_balances}
        all_addresses == {b[2] : b \in local_balances \cup api_balances}
    IN  { <<address, tick, BalanceOf(local_balances, tick, address),
            BalanceOf(api_balances, tick, address)>> :
            <<address, tick>> \in
                { x \in all_addresses \X ticks :
                    BalanceOf(local_balances, x[2], x[1]) /= BalanceOf(api_balances, x[2], x[1]) } }

SetOf(list) == {list[i] : i \in 1..Len(list)}

\* sorted(entries) for a set of str
RECURSIVE sorted_entries(_)
sorted_entries(entries) ==
    IF entries = {} THEN <<>>
    ELSE LET first == CHOOSE x \in entries : \A y \in entries \ {x} : StrLess(x, y)
         IN  <<first>> \o sorted_entries(entries \ {first})

\* compare_string_formats: the two strings are split into sets of entries; when
\* the sorted sets differ, the difference is printed and sys.exit() is called.
\* What follows only prints
compare_string_formats(local_str, api_str) ==
    LET local_entries == SetOf(Split(local_str, ";"))
        api_entries == SetOf(Split(api_str, ";"))
    IN  IF sorted_entries(local_entries) /= sorted_entries(api_entries) THEN "SystemExit"
        ELSE "returns"

Validated(outcome, value, differences) ==
    [outcome |-> outcome, value |-> value, differences |-> differences]

\* validate_src20_ledger_hash(block_index, ledger_hash, valid_src20_str), with
\* what fetch_api_ledger_data gives for the block
validate_src20_ledger_hash(ledger_hash, valid_src20_str, api) ==
    IF api.raised THEN Validated("returns", FALSE, {})
    ELSE IF api.hash = ledger_hash THEN Validated("returns", TRUE, {})
    ELSE LET local_balances == parse_balances(valid_src20_str)
             api_balances == parse_balances(api.validation)
         IN  IF local_balances.raised /= "none" THEN Validated(local_balances.raised, FALSE, {})
             ELSE IF api_balances.raised /= "none"
             THEN Validated(api_balances.raised, FALSE, {})
             ELSE Validated(compare_string_formats(valid_src20_str, api.validation), TRUE,
                            compare_balances(local_balances.balances, api_balances.balances))

\* ------------------------------------------------------ the oracle fetch
\* fetch_api_ledger_data: the retries and the first sleep, in seconds
max_retries == 5
backoff_time == 1

\* what the oracle answers to one request: the request fails, the status is not
\* 200, the body is no JSON, the JSON has no "data", or data with its hash (""
\* when it has none) and its balance_data
Response(kind, hash, balance_data) ==
    [kind |-> kind, hash |-> hash, balance_data |-> balance_data]

\* fetch_url: (None, None), here ApiFailure, unless the answer has data with a
\* balance_data that is not empty
fetch_url(response) ==
    IF response.kind = "data" /\ response.balance_data /= <<>>
    THEN ApiData(response.hash, response.balance_data)
    ELSE ApiFailure

\* fetch_api_ledger_data and the validate_src20_ledger_hash that called it: where
\* the call is, the rounds begun, the sleeps taken, what each round gave
FetchState(pc, configured, ledger_hash, valid_src20_str) ==
    [pc |-> pc, configured |-> configured, ledger_hash |-> ledger_hash,
     valid_src20_str |-> valid_src20_str, rounds |-> 0, backoff_time |-> backoff_time,
     slept |-> <<>>, results |-> <<>>, result |-> ApiFailure,
     returned |-> Validated("none", FALSE, {})]

NoFetch == FetchState("idle", FALSE, "", <<>>)

\* the ledger hashes, and an entry of a ledger string
LedgerHashes == {"h1", "h2"}

Entry3(tick, address, amount) == <<tick, ",", address, ",">> \o amount

\* the ledger of the block, and the ledgers the oracle may hold for it: the same,
\* one with another amount, one that is no ledger
FetchLocalLedger == Join(<<Entry3("a", "A", <<"1">>), Entry3("c", "B", <<"2">>)>>, ";")

FetchApiLedgers ==
    { FetchLocalLedger,
      Join(<<Entry3("a", "A", <<"1">>), Entry3("c", "B", <<"3">>)>>, ";"),
      <<"a", ",", "A">> }

HttpResponses ==
    { Response(kind, "", <<>>) :
        kind \in {"RequestException", "status", "JSONDecodeError", "nodata"} }
    \cup { Response("data", h, <<>>) : h \in LedgerHashes }
    \cup { Response("data", h, s) : h \in LedgerHashes \cup {""}, s \in FetchApiLedgers }

\* validate_src20_ledger_hash on the ledger of the block and each result of the
\* fetch, worked out once
ValidatedTable ==
    { <<call, validate_src20_ledger_hash(call[1], call[2], call[3])>> :
        call \in {"h1"} \X {FetchLocalLedger}
                  \X ({ApiFailure} \cup {fetch_url(response) : response \in HttpResponses}) }

ValidatedOf(ledger_hash, valid_src20_str, api) ==
    (CHOOSE row \in ValidatedTable : row[1] = <<ledger_hash, valid_src20_str, api>>)[2]

\* ------------------------------------------------------------- actions
NoLast == [kind |-> "none", inputs |-> <<>>]

\* no stamp yet, and nothing else outside the SRC-20 state
EmptyStamps ==
    /\ StampTableV4 = <<>>
    /\ parsed_stamps = <<>>
    /\ valid_stamps_in_block = <<>>
    /\ stamp_counter = [stamp |-> 0, cursed |-> 0]
    /\ BLOCK_MESSAGES = <<>>
    /\ indexer = [p \in Procs |-> Off]
    /\ db_rows = [h \in 0..ServerMaxBlocks |-> IF h = 0 THEN IndexedRow ELSE NoBlockRow]
    /\ fetch = NoFetch

\* the SRC-20 steps, the stamp steps and the database steps leave the rest alone
OutsideSrc20 == UNCHANGED <<stamp_vars, tracer_vars, server_vars, oracle_vars>>
OutsideStamps == UNCHANGED <<src20_vars, tracer_vars, server_vars, oracle_vars>>
OutsideTracer == UNCHANGED <<src20_vars, stamp_vars, server_vars, oracle_vars>>
OutsideServer ==
    UNCHANGED <<src20_vars, stamp_vars, tracer_vars, oracle_vars, block_index, ops_done, raised>>

EmptyDb ==
    /\ processed_src20_in_block = <<>>
    /\ balances = [t \in Ticks |-> [a \in Addrs |-> NoRow]]
    /\ src20_valid_deploy = [t \in Ticks |-> <<>>]
    /\ src20_valid_minted = [t \in Ticks |-> 0]
    /\ TOTAL_MINTED_CACHE = [t \in Ticks |-> [cached |-> FALSE, amt |-> 0]]
    /\ block_index = 1
    /\ ops_done = 0
    /\ raised = FALSE
    /\ last = NoLast
    /\ EmptyStamps

Init == EmptyDb

\* one transaction of the block: parse_src20, then the record joins the shadow list
ProcessOp(d) ==
    /\ ~raised
    /\ LET p == parse_src20(d, processed_src20_in_block, balances,
                            src20_valid_deploy, src20_valid_minted, TOTAL_MINTED_CACHE)
       IN  /\ raised' = p.raised
           /\ last' = [kind |-> "op", inputs |-> Append(last.inputs, d), input |-> d, p |-> p]
           /\ IF p.raised
              THEN UNCHANGED <<processed_src20_in_block, TOTAL_MINTED_CACHE>>
              ELSE /\ processed_src20_in_block' = Append(processed_src20_in_block, p.src20_dict)
                   /\ TOTAL_MINTED_CACHE' = p.cache
    /\ ops_done' = ops_done + 1
    /\ UNCHANGED <<balances, src20_valid_deploy, src20_valid_minted, block_index>>
    /\ OutsideSrc20

\* one transaction of the block, from the payload dict: Src20Processor.process, then
\* the record joins the shadow list
RawStep(r, input, p, appended) ==
    /\ raised' = p.raised
    /\ last' = [kind |-> "op", inputs |-> Append(last.inputs, r), raw |-> r,
                input |-> input, p |-> p]
    /\ IF p.raised
       THEN UNCHANGED <<processed_src20_in_block, TOTAL_MINTED_CACHE>>
       ELSE /\ processed_src20_in_block' =
                  Append(IF appended THEN Append(processed_src20_in_block, p.src20_dict)
                         ELSE processed_src20_in_block,
                         p.src20_dict)
            /\ TOTAL_MINTED_CACHE' = p.cache

RawResult(r, v, res) == RawStep(r, v.src20_dict, res.p, res.appended)

RawValidated(r, v) ==
    RawResult(r, v, ProcessorOf(v, processed_src20_in_block, balances,
                                src20_valid_deploy, src20_valid_minted, TOTAL_MINTED_CACHE))

ProcessRaw(r) ==
    /\ ~raised
    /\ RawValidated(r, process_values(r))
    /\ ops_done' = ops_done + 1
    /\ UNCHANGED <<balances, src20_valid_deploy, src20_valid_minted, block_index>>
    /\ OutsideSrc20

\* parse_stamp: the format check of one decoded payload at one height
CheckFormat(input, height) ==
    /\ ops_done' = ops_done + 1
    /\ last' = [kind |-> "format", inputs |-> <<>>, payload |-> input,
                block_index |-> height, result |-> check_format(input, height)]
    /\ UNCHANGED <<processed_src20_in_block, balances, src20_valid_deploy, src20_valid_minted,
                   TOTAL_MINTED_CACHE, block_index, raised>>
    /\ OutsideSrc20

\* get_src_or_img_from_data: the base64 string of a description decoded at a height
DecodeBase64(base64_string, height) ==
    /\ ops_done' = ops_done + 1
    /\ LET r == decode_base64(base64_string, height)
       IN  last' = [kind |-> "base64", inputs |-> <<>>, base64_string |-> base64_string,
                    block_index |-> height, image_data |-> r.image_data,
                    is_valid_base64 |-> r.is_valid_base64,
                    stored |-> StoresFile(r.image_data)]
    /\ UNCHANGED <<processed_src20_in_block, balances, src20_valid_deploy, src20_valid_minted,
                   TOTAL_MINTED_CACHE, block_index, raised>>
    /\ OutsideSrc20

\* end of block: fold the shadow list into the balance table, persist the valid
\* records, drop the shadow list and the mint-total cache
EndBlock ==
    /\ ~raised
    /\ block_index <= MaxBlocks
    /\ balances' = update_src20_balances(balances, block_index, processed_src20_in_block)
    /\ src20_valid_deploy' = [t \in Ticks |->
           src20_valid_deploy[t] \o ValidDeploysOf(processed_src20_in_block, t)]
    /\ src20_valid_minted' = [t \in Ticks |->
           src20_valid_minted[t] + ValidMintSumOf(processed_src20_in_block, t)]
    /\ processed_src20_in_block' = <<>>
    /\ TOTAL_MINTED_CACHE' = [t \in Ticks |-> [cached |-> FALSE, amt |-> 0]]
    /\ block_index' = block_index + 1
    /\ last' = [kind |-> "commit", inputs |-> <<>>,
                shadow |-> processed_src20_in_block, balances |-> balances,
                ledger |-> process_balance_updates(AnnotatedUpdates(balances,
                               balance_updates_of(processed_src20_in_block), 1, block_index))]
    /\ UNCHANGED <<ops_done, raised>>
    /\ OutsideSrc20

\* clear_zero_balances: DELETE FROM balances WHERE amt = 0
ClearZeroBalances ==
    /\ ~raised
    /\ processed_src20_in_block = <<>>
    /\ \E t \in Ticks, a \in Addrs : balances[t][a].present /\ balances[t][a].amt = 0
    /\ balances' = [t \in Ticks |-> [a \in Addrs |->
           IF balances[t][a].present /\ balances[t][a].amt = 0 THEN NoRow ELSE balances[t][a]]]
    /\ last' = NoLast
    /\ UNCHANGED <<processed_src20_in_block, src20_valid_deploy, src20_valid_minted,
                   TOTAL_MINTED_CACHE, block_index, ops_done, raised>>
    /\ OutsideSrc20

\* one transaction of the block: parse_stamp, then the record joins the stamps of
\* the block and a valid stamp the valid stamps of the block
StampStep(c, r) ==
    /\ raised' = (r.outcome = "TypeError")
    /\ stamp_counter' = r.counters
    /\ parsed_stamps' = IF r.outcome = "stamp" THEN Append(parsed_stamps, r.stamp_data)
                        ELSE parsed_stamps
    /\ valid_stamps_in_block' = IF r.valid_stamp.present
                                THEN Append(valid_stamps_in_block, r.valid_stamp)
                                ELSE valid_stamps_in_block
    /\ last' = [kind |-> "stamp", inputs |-> <<>>, candidate |-> c, result |-> r,
                block_index |-> block_index, counters |-> stamp_counter,
                table |-> StampTableV4, in_block |-> parsed_stamps,
                valid |-> valid_stamps_in_block]

ParseStamp(c) ==
    /\ ~raised
    /\ StampStep(c, parse_stamp(c, StampTableV4, valid_stamps_in_block, stamp_counter,
                                block_index))
    /\ ops_done' = ops_done + 1
    /\ UNCHANGED <<block_index, StampTableV4>>
    /\ OutsideStamps

\* end of block: the stamp records of the block are inserted into the stamp table
InsertStamps ==
    /\ ~raised
    /\ parsed_stamps /= <<>>
    /\ StampTableV4' = StampTableV4 \o parsed_stamps
    /\ parsed_stamps' = <<>>
    /\ valid_stamps_in_block' = <<>>
    /\ block_index' = block_index + 1
    /\ last' = NoLast
    /\ UNCHANGED <<ops_done, raised, stamp_counter>>
    /\ OutsideStamps

\* one statement executed on a cursor whose execution tracer is exectracer
TracedStep(statement, r) ==
    /\ raised' = (r.outcome /= "True")
    /\ BLOCK_MESSAGES' = r.messages
    /\ last' = [kind |-> "exec", inputs |-> <<>>, statement |-> statement,
                block_index |-> block_index, before |-> BLOCK_MESSAGES,
                outcome |-> r.outcome]

Execute(statement) ==
    /\ ~raised
    /\ TracedStep(statement, exectracer(statement.sql, statement.bindings,
                                        BLOCK_MESSAGES, block_index))
    /\ ops_done' = ops_done + 1
    /\ UNCHANGED block_index
    /\ OutsideTracer

\* end of block: the buffer is hashed and emptied
HashBlockMessages ==
    /\ ~raised
    /\ block_index < ENHANCED_SENDS_START
    /\ BLOCK_MESSAGES' = <<>>
    /\ block_index' = block_index + 1
    /\ last' = NoLast
    /\ UNCHANGED <<ops_done, raised>>
    /\ OutsideTracer

\* initialise: initialise_config, then initialise_db connects to the database.
\* No lock is taken: get_lock is commented out
initialise(p) ==
    /\ indexer[p].pc \in {"off", "exited"}
    /\ indexer' = [indexer EXCEPT ![p] = IndexerAt("initialised", 0, 0, <<>>)]
    /\ last' = [kind |-> "initialise", inputs |-> <<>>, proc |-> p, indexer |-> indexer,
                rows |-> db_rows]
    /\ UNCHANGED db_rows
    /\ OutsideServer

\* start_all: connect_to_backend, then blocks.follow
start_all(p) ==
    /\ indexer[p].pc = "initialised"
    /\ indexer' = [indexer EXCEPT ![p].pc = "following"]
    /\ last' = [kind |-> "start_all", inputs |-> <<>>, proc |-> p, indexer |-> indexer,
                rows |-> db_rows]
    /\ UNCHANGED db_rows
    /\ OutsideServer

\* blocks.follow takes the next block: the block after the last one of the
\* database if that one is indexed, else that one again, after its rows are purged
FollowBlock(p, h, prev) ==
    /\ db_rows' = prev.rows
    /\ indexer' = [indexer EXCEPT ![p].block = IF prev.parsed THEN h ELSE h - 1,
                                  ![p].step = 0, ![p].pending = <<>>]
    /\ last' = [kind |-> "follow", inputs |-> <<>>, proc |-> p, indexer |-> indexer,
                rows |-> db_rows]

NextBlock(p) ==
    /\ indexer[p].pc = "following"
    /\ indexer[p].block = 0
    /\ last_db_index(db_rows) + 1 <= ServerMaxBlocks
    /\ FollowBlock(p, last_db_index(db_rows) + 1,
                   is_prev_block_parsed(db_rows, last_db_index(db_rows) + 1))
    /\ OutsideServer

\* the next write of the block in the open transaction of the process
WriteRows(p) ==
    /\ indexer[p].pc = "following"
    /\ indexer[p].block /= 0
    /\ indexer[p].step < Len(BlockWrites)
    /\ (indexer[p].pending /= <<>>
          => indexer[p].pending[Len(indexer[p].pending)] \notin CommitPoints)
    /\ indexer' = [indexer EXCEPT ![p].step = @ + 1,
                                  ![p].pending = Append(@, BlockWrites[indexer[p].step + 1])]
    /\ last' = [kind |-> "write", inputs |-> <<>>, proc |-> p, indexer |-> indexer,
                rows |-> db_rows]
    /\ UNCHANGED db_rows
    /\ OutsideServer

\* COMMIT: the open transaction reaches the database; after the last write of
\* the block the process is between two blocks
Commit(p) ==
    /\ indexer[p].pc = "following"
    /\ indexer[p].pending /= <<>>
    /\ indexer[p].pending[Len(indexer[p].pending)] \in CommitPoints
    /\ db_rows' = Committed(db_rows, indexer[p].block, indexer[p].pending)
    /\ indexer' = [indexer EXCEPT ![p] =
           IF indexer[p].step = Len(BlockWrites) THEN IndexerAt("following", 0, 0, <<>>)
           ELSE [@ EXCEPT !.pending = <<>>]]
    /\ last' = [kind |-> "commit_rows", inputs |-> <<>>, proc |-> p, indexer |-> indexer,
                rows |-> db_rows]
    /\ OutsideServer

\* sigterm_handler: SIGINT or SIGTERM is logged and sys.exit(0) ends the process
\* where it stands; its open transaction ends with its connection
sigterm_handler(p) ==
    /\ indexer[p].pc \in {"initialised", "following"}
    /\ indexer' = [indexer EXCEPT ![p] = IndexerAt("exited", 0, 0, <<>>)]
    /\ last' = [kind |-> "signal", inputs |-> <<>>, proc |-> p, indexer |-> indexer,
                rows |-> db_rows]
    /\ UNCHANGED db_rows
    /\ OutsideServer

\* the ledger of a block is validated against the oracle; an exception or
\* sys.exit() that leaves validate_src20_ledger_hash ends the process
ValidateLedgerHash(ledger_hash, valid_src20_str, api) ==
    /\ ~raised
    /\ LET r == validate_src20_ledger_hash(ledger_hash, valid_src20_str, api)
       IN  /\ raised' = (r.outcome /= "returns")
           /\ last' = [kind |-> "validate", inputs |-> <<>>, ledger_hash |-> ledger_hash,
                       valid_src20_str |-> valid_src20_str, api |-> api, result |-> r]
    /\ ops_done' = ops_done + 1
    /\ block_index' = block_index + 1
    /\ UNCHANGED <<src20_vars, stamp_vars, tracer_vars, server_vars, oracle_vars>>

\* generate_srcbackground_svg: the token JSON of the SVG of one SRC-20
GenerateSvg(input_dict) ==
    /\ last' = [kind |-> "svg", inputs |-> <<>>, input_dict |-> input_dict,
                pretty_json |-> pretty_json(input_dict)]
    /\ ops_done' = ops_done + 1
    /\ UNCHANGED <<src20_vars, stamp_vars, tracer_vars, server_vars, oracle_vars, block_index, raised>>

CpidStep(module, tx, got, cpid) ==
    /\ last' = [kind |-> "cpid", inputs |-> <<>>, module |-> module, tx |-> tx,
                stamp_hash |-> got.stamp_hash, cpid |-> cpid]
    /\ ops_done' = ops_done + 1
    /\ UNCHANGED <<src20_vars, stamp_vars, tracer_vars, server_vars, oracle_vars, block_index, raised>>

\* parse_stamps_to_stamp_table of src/stamp.py gives the row of a transaction its cpid
ParseStampToTable(tx) ==
    LET got == get_cpid_of_tx(tx.cpid, tx.tx_index, tx.tx_hash)
    IN  CpidStep("src/stamp.py", tx, got, parsed_cpid(got))

\* get_cpid of index_core/stamp.py is called for a transaction by parse_stamp,
\* which keeps the cpid of the stamp
GetCpid(tx) ==
    LET got == get_cpid_of_block(tx.cpid, tx.block_index, tx.tx_hash)
    IN  CpidStep("index_core/stamp.py", tx, got, got.cpid)

\* parse_stamp on one SRC-20 payload: check_format at the block's height, and, when
\* the payload is not excluded, parse_src20 on the dict check_format returned
ParseSrc20(input, creator) ==
    /\ ~raised
    /\ \E checked \in {check_format(input, block_index)} :
           IF checked.accepted
           THEN \E r \in {RawDict(checked.input_dict.op, checked.input_dict.tick,
                                  checked.input_dict.max, checked.input_dict.lim, Absent,
                                  checked.input_dict.amt, creator, creator)} :
                    RawValidated(r, process_values(r))
           ELSE /\ last' = [kind |-> "excluded", inputs |-> last.inputs, payload |-> input]
                /\ UNCHANGED <<processed_src20_in_block, TOTAL_MINTED_CACHE, raised>>
    /\ ops_done' = ops_done + 1
    /\ UNCHANGED <<balances, src20_valid_deploy, src20_valid_minted, block_index>>
    /\ OutsideSrc20

\* validate_src20_ledger_hash calls fetch_api_ledger_data: without a URL it
\* returns (None, None) at once, with one the rounds begin
CallFetch(configured, ledger_hash, valid_src20_str) ==
    /\ ~raised
    /\ fetch.pc \in {"idle", "done"}
    /\ fetch' = FetchState(IF configured THEN "round" ELSE "fetched", configured,
                           ledger_hash, valid_src20_str)
    /\ UNCHANGED <<src20_vars, stamp_vars, tracer_vars, server_vars, block_index, ops_done,
                   raised, last>>

\* one round of the loop: the request, and the return of a result that is not
\* (None, None)
RequestRound(response) ==
    /\ fetch.pc = "round"
    /\ fetch.rounds < max_retries
    /\ LET result == fetch_url(response)
       IN  fetch' = [fetch EXCEPT !.rounds = @ + 1,
                                  !.results = Append(@, result),
                                  !.result = result,
                                  !.pc = IF result /= ApiFailure THEN "fetched" ELSE "sleep"]
    /\ UNCHANGED <<src20_vars, stamp_vars, tracer_vars, server_vars, block_index, ops_done,
                   raised, last>>

\* Sleep whose backoff_time stays what it was
Sleep_constant ==
    /\ fetch.pc = "sleep"
    /\ fetch' = [fetch EXCEPT !.slept = Append(@, fetch.backoff_time), !.pc = "round"]
    /\ UNCHANGED <<src20_vars, stamp_vars, tracer_vars, server_vars, block_index, ops_done,
                   raised, last>>

\* the end of a failed round: time.sleep(backoff_time); backoff_time *= 2
Sleep ==
    /\ fetch.pc = "sleep"
    /\ fetch' = [fetch EXCEPT !.slept = Append(@, fetch.backoff_time),
                              !.backoff_time = @ * 2,
                              !.pc = "round"]
    /\ UNCHANGED <<src20_vars, stamp_vars, tracer_vars, server_vars, block_index, ops_done,
                   raised, last>>

\* the loop is over: raise Exception("Failed to retrieve from the API ...")
RaiseAfterRetries ==
    /\ fetch.pc = "round"
    /\ fetch.rounds >= max_retries
    /\ fetch' = [fetch EXCEPT !.pc = "raised"]
    /\ UNCHANGED <<src20_vars, stamp_vars, tracer_vars, server_vars, block_index, ops_done,
                   raised, last>>

\* validate_src20_ledger_hash after the fetch: the exception of the fetch and the
\* ValueError of a None balance_data are caught and False is returned; a result
\* is compared with the local ledger
FinishValidate ==
    /\ fetch.pc \in {"fetched", "raised"}
    /\ LET api == IF fetch.pc = "raised" THEN ApiFailure ELSE fetch.result
           r == ValidatedOf(fetch.ledger_hash, fetch.valid_src20_str, api)
       IN  /\ fetch' = [fetch EXCEPT !.pc = "done", !.returned = r]
           /\ raised' = (r.outcome /= "returns")
           /\ last' = [kind |-> "validate", inputs |-> <<>>,
                       ledger_hash |-> fetch.ledger_hash,
                       valid_src20_str |-> fetch.valid_src20_str, api |-> api, result |-> r]
    /\ ops_done' = ops_done + 1
    /\ block_index' = block_index + 1
    /\ UNCHANGED <<src20_vars, stamp_vars, tracer_vars, server_vars>>

\* ------------------------------------------------------ inputs of Spec
DeployInputs ==
    { Src20Dict("DEPLOY", "dogs", m[1] * Unit, m[2] * Unit, m[3], None, "A", "A") :
        m \in {<<0, 0, 0>>, <<2, 1, 0>>, <<2, 3, None>>, <<0, 1, 0>>} }
    \cup { Src20Dict("DEPLOY", "cats", 2 * Unit, 2 * Unit, 1, None, "A", "A") }

MintInputs ==
    { Src20Dict("MINT", "dogs", None, None, None, m[1], "A", m[2]) :
        m \in {<<None, "A">>, <<0, "A">>, <<Half, "A">>, <<Unit, "A">>,
               <<Unit, "D">>, <<3 * Unit, "D">>} }
    \cup { Src20Dict("MINT", "cats", None, None, None, Unit + Half, "D", "D") }

TransferInputs ==
    { Src20Dict("TRANSFER", "dogs", None, None, None, m[1], m[2], m[3]) :
        m \in {<<None, "A", "D">>, <<Half, "A", "D">>, <<Unit, "A", "D">>,
               <<Half, "D", "A">>, <<Unit, "D", "A">>, <<Unit, "A", "A">>} }
    \cup { Src20Dict("TRANSFER", "cats", None, None, None, Unit, "D", "A") }

OtherInputs ==
    { Src20Dict("BULK_XFER", "dogs", None, None, None, Unit, "A", "D") }

Inputs == DeployInputs \cup MintInputs \cup TransferInputs \cup OtherInputs

Process == ops_done < MaxOps /\ \E d \in Inputs : ProcessOp(d)

Next == Process \/ EndBlock \/ ClearZeroBalances

Spec == Init /\ [][Next]_vars

\* ---------------------------------------------- the scenarios of the spec
\* DEPLOY dogs max=1000 lim=100 dec=0; MINT 60 to A; MINT 950 to B; MINT 1;
\* TRANSFER 100 from C to D; TRANSFER 40 from A to D
ScenarioDeploy == Src20Dict("DEPLOY", "dogs", 1000 * Unit, 100 * Unit, 0, None, "A", "A")
ScenarioMint60 == Src20Dict("MINT", "dogs", None, None, None, 60 * Unit, "A", "A")
ScenarioMint950 == Src20Dict("MINT", "dogs", None, None, None, 950 * Unit, "B", "B")
ScenarioMint1 == Src20Dict("MINT", "dogs", None, None, None, Unit, "A", "A")
ScenarioTransfer100 == Src20Dict("TRANSFER", "dogs", None, None, None, 100 * Unit, "C", "D")
ScenarioTransfer40 == Src20Dict("TRANSFER", "dogs", None, None, None, 40 * Unit, "A", "D")

ScenarioInputs == {ScenarioDeploy, ScenarioMint60, ScenarioMint950, ScenarioMint1,
                   ScenarioTransfer100, ScenarioTransfer40}

ProcessScenario == ops_done < ScenarioMaxOps /\ \E d \in ScenarioInputs : ProcessOp(d)

\* no balance of the scenarios reaches 0, so clear_zero_balances has nothing to delete
NextScenario == ProcessScenario \/ EndBlock

SpecScenario == Init /\ [][NextScenario]_vars

\* ------------------------------------- transfers over a committed balance
\* the store after an earlier block (height 0) holding DEPLOY dogs max=2 lim=1 dec=0
\* and MINT 1 to D
InitXfer ==
    /\ processed_src20_in_block = <<>>
    /\ balances = [t \in Ticks |-> [a \in Addrs |->
           IF t = "dogs" /\ a = "D"
           THEN [present |-> TRUE, amt |-> Unit, last_update |-> 0] ELSE NoRow]]
    /\ src20_valid_deploy = [t \in Ticks |->
           IF t = "dogs" THEN <<[lim |-> Unit, max |-> 2 * Unit, dec |-> 0]>> ELSE <<>>]
    /\ src20_valid_minted = [t \in Ticks |-> IF t = "dogs" THEN Unit ELSE 0]
    /\ TOTAL_MINTED_CACHE = [t \in Ticks |-> [cached |-> FALSE, amt |-> 0]]
    /\ block_index = 1
    /\ ops_done = 0
    /\ raised = FALSE
    /\ last = NoLast
    /\ EmptyStamps

XferInputs ==
    { Src20Dict("TRANSFER", "dogs", None, None, None, m[1], m[2], m[3]) :
        m \in {<<Unit, "A", "D">>, <<Unit, "D", "A">>, <<2 * Unit, "D", "A">>,
               <<Unit, "D", "D">>} }
    \cup { Src20Dict("MINT", "dogs", None, None, None, Unit, "A", "A") }

ProcessXfer == ops_done < XferMaxOps /\ \E d \in XferInputs : ProcessOp(d)

NextXfer == ProcessXfer \/ EndBlock \/ ClearZeroBalances

SpecXfer == InitXfer /\ [][NextXfer]_vars

\* --------------------------- deploys and transfers over a committed balance
FrameInputs ==
    XferInputs
    \cup { Src20Dict("DEPLOY", "cats", 2 * Unit, Unit, 0, None, "A", "A"),
           Src20Dict("DEPLOY", "dogs", 2 * Unit, Unit, 0, None, "A", "A"),
           Src20Dict("MINT", "cats", None, None, None, Unit, "B", "B") }

ProcessFrame == ops_done < FrameMaxOps /\ \E d \in FrameInputs : ProcessOp(d)

NextFrame == ProcessFrame \/ EndBlock \/ ClearZeroBalances

SpecFrame == InitXfer /\ [][NextFrame]_vars

\* ------------------------------------------ payloads of the format check
Heights == {CP_P2WSH_FEAT_BLOCK_START - 1, CP_P2WSH_FEAT_BLOCK_START,
            CP_P2WSH_FEAT_BLOCK_START + 1}

NumericTexts ==
    { <<"1">>, <<"0">>, <<>>, <<"-", "1">>, <<"-", "0">>, <<"1", ".", "5">>,
      <<"1", "e", "3">>, <<"1", "E", "3">>, <<"1", "e", "2", "0">>, <<"N", "a", "N">>,
      <<"a", "b">>, <<"1", ".", "2", ".", "3">>,
      uint64_max, SubSeq(uint64_max, 1, 19) \o <<"6">>, uint64_max \o <<".", "5">> }

NumberLiterals ==
    { <<"1">>, <<"-", "1">>, <<"1", ".", "5">>, <<"-", "0", ".", "5">>,
      <<"1", "e", "3">>, <<"1", "E", "3">>, <<"1", ".", "5", "e", "0">>,
      uint64_max, SubSeq(uint64_max, 1, 19) \o <<"6">> }

JsonValues ==
    {JStr(s) : s \in NumericTexts} \cup {JNum(s) : s \in NumberLiterals}
    \cup {JConst("NaN"), JConst("Infinity"), JConst("-Infinity"), JNull, JTrue}

DictValues ==
    {PyText(s) : s \in NumericTexts}
    \cup { PyInt(1), PyInt(-1), PyNone, PyBool, PyList,
           PyFloat(<<"1", "0", "0", "0", ".", "0", "0", "0", "0", "0", "0">>),
           PyFloat(<<"-", "1", ".", "5", "0", "0", "0", "0", "0">>),
           PyFloat(<<"n", "a", "n">>), PyFloat(<<"i", "n", "f">>),
           PyBig(D(<<"1", "E", "+", "3">>)), PyBig(D(<<"-", "1">>)), PyBig(DecNaN),
           PyBig(D(uint64_max)), PyBig(D(SubSeq(uint64_max, 1, 19) \o <<"6">>)) }

\* a MINT / TRANSFER payload, a DEPLOY payload with the value as max and as lim,
\* and a MINT payload that carries the value under the key max
PayloadsOf(form, v, one) ==
    { Payload(form, "src-20", PyStr("transfer"), "dogs", Absent, Absent, v, Absent),
      Payload(form, "src-20", PyStr("deploy"), "dogs", v, one, Absent, Absent),
      Payload(form, "src-20", PyStr("deploy"), "dogs", one, v, Absent, Absent),
      Payload(form, "src-20", PyStr("mint"), "dogs", v, Absent, one, Absent),
      Payload(form, "src-20", Absent, "dogs", Absent, Absent, v, Absent),
      Payload(form, "src-20", PyStr("mint"), "", Absent, Absent, v, Absent),
      Payload(form, "src-721", PyStr("mint"), "dogs", Absent, Absent, v, Absent) }

FormatInputs ==
    UNION {PayloadsOf("json", v, JStr(<<"1">>)) : v \in JsonValues}
    \cup UNION {PayloadsOf("dict", v, PyText(<<"1">>)) : v \in DictValues}

CheckFormatPayload ==
    ops_done < FormatMaxOps /\ \E input \in FormatInputs, h \in Heights : CheckFormat(input, h)

NextFormat == CheckFormatPayload

SpecFormat == Init /\ [][NextFormat]_vars

\* ------------------------------------------------------ base64 strings
Base64Heights == (STOP_BASE64_REPAIR - 1)..(CP_P2WSH_FEAT_BLOCK_START + 1)

Base64MaxLen == 3

RECURSIVE StringsOver(_, _)
StringsOver(chars, n) ==
    IF n = 0 THEN {<<>>}
    ELSE LET shorter == StringsOver(chars, n - 1)
         IN  shorter \cup {Append(w, c) : w \in {x \in shorter : Len(x) = n - 1}, c \in chars}

\* data characters followed by zero to two '='
Base64Strings ==
    {w \o [i \in 1..k |-> "="] :
        w \in StringsOver({"Q", "U", "I"}, Base64MaxLen), k \in 0..2}

DecodeBase64String ==
    /\ ops_done < Base64MaxOps
    /\ \E w \in Base64Strings, h \in Base64Heights : DecodeBase64(w, h)

NextBase64 == DecodeBase64String

SpecBase64 == Init /\ [][NextBase64]_vars

\* ------------------------------------------------- payloads of SpecRaw
\* DEPLOY of dogs with max "2", lim "1" and every shape of dec
RawDecValues ==
    {Absent, PyNone, PyText(<<>>), PyText(<<"0">>), PyText(<<"1", "8">>),
     PyText(<<"1", "9">>), PyText(<<"1", ".", "5">>), PyText(<<"a", "b">>),
     PyText(<<"-", "1">>), PyInt(5), PyInt(19), PyDec(19 * Unit)}

RawDeployInputs ==
    { RawDict(PyStr("DEPLOY"), "dogs", PyText(<<"2">>), PyText(<<"1">>), dec,
              Absent, "A", "A") : dec \in RawDecValues }
    \cup { RawDict(PyStr("deploy"), "cats", PyDec(2 * Unit), PyDec(2 * Unit),
                   PyText(<<"1">>), Absent, "A", "A") }

RawMintTransferInputs ==
    { RawDict(PyStr("mint"), "dogs", Absent, Absent, Absent, PyText(<<"1">>), "A", "A"),
      RawDict(PyStr("MINT"), "dogs", Absent, Absent, Absent, PyDec(Unit + Half), "A", "A"),
      RawDict(PyStr("MINT"), "dogs", PyText(<<".">>), Absent, Absent, PyDec(Unit), "A", "A"),
      RawDict(PyStr("Transfer"), "dogs", Absent, Absent, Absent, PyText(<<"1">>), "A", "D") }

\* records whose op is not DEPLOY, MINT or TRANSFER
RawOtherInputs ==
    { RawDict(op, "dogs", Absent, Absent, Absent, PyText(<<"1">>), "A", "D") :
        op \in {PyStr("BULK_XFER"), PyStr("foo"), PyStr(""), PyNone, Absent} }
    \cup { RawDict(PyStr("FOO"), "dogs", Absent, Absent, Absent, PyText(<<"+", "5">>), "A", "D"),
           RawDict(PyStr("FOO"), "dogs", Absent, Absent, PyText(<<"1", "9">>),
                   PyText(<<"1">>), "A", "D") }

RawInputs == RawDeployInputs \cup RawMintTransferInputs \cup RawOtherInputs

ProcessRawPayload == ops_done < RawMaxOps /\ \E r \in RawInputs : ProcessRaw(r)

NextRaw == ProcessRawPayload \/ EndBlock

SpecRaw == Init /\ [][NextRaw]_vars

\* ------------------------------------- payloads that carry further keys
\* check_format returns the payload dict with every key it came with, so a payload
\* may carry "valid" or "status" itself (a JSON 1 is parsed as Decimal 1)
PlainPayloads ==
    { RawDict(PyStr("DEPLOY"), "dogs", PyDec(2 * Unit), PyDec(Unit), PyDec(0), Absent, "A", "A"),
      RawDict(PyStr("DEPLOY"), "dogs", PyDec(2 * Unit), PyDec(Unit), PyDec(19 * Unit),
              Absent, "A", "A"),
      RawDict(PyStr("MINT"), "dogs", Absent, Absent, Absent, PyDec(Unit), "A", "A"),
      RawDict(PyStr("MINT"), "dogs", Absent, Absent, Absent, PyDec(3 * Unit), "A", "A"),
      RawDict(PyStr("MINT"), "dogs", Absent, Absent, Absent, PyDec(Half), "A", "A"),
      RawDict(PyStr("TRANSFER"), "dogs", Absent, Absent, Absent, PyDec(Unit), "A", "D"),
      RawDict(PyStr("TRANSFER"), "dogs", Absent, Absent, Absent, PyDec(Unit), "C", "D"),
      RawDict(PyStr("BULK_XFER"), "dogs", Absent, Absent, Absent, PyDec(Unit), "A", "D") }

PayloadInputs ==
    PlainPayloads
    \cup { [r EXCEPT !.valid = PyDec(Unit)] : r \in PlainPayloads }
    \cup { [r EXCEPT !.status = PyStr("BB")] : r \in PlainPayloads }

ProcessPayload == ops_done < PayloadMaxOps /\ \E r \in PayloadInputs : ProcessRaw(r)

NextPayload == ProcessPayload \/ EndBlock

SpecPayload == Init /\ [][NextPayload]_vars

\* ---------------------------------------------------- stamp candidates
StampMaxOps == 2      \* candidates parsed in one behaviour of SpecStamp

Text(s) == PyText(s)

\* a transaction candidate: the upstream mapping with its cpid and its payload,
\* which is the mapping itself (dict) or the base64 string of its description
Stamp(kind, dict, base64_string, cpid) ==
    [kind |-> kind, p |-> dict.p, dict |-> dict, base64_string |-> base64_string,
     cpid |-> cpid]

Candidate(valid_data, stamp, asset_longname, is_op_return) ==
    [valid_data |-> valid_data, stamp |-> stamp, asset_longname |-> asset_longname,
     is_op_return |-> is_op_return]

NoDict == Payload("dict", "", Absent, "", Absent, Absent, Absent, Absent)

\* a TRANSFER mapping of a protocol with an amount
TransferDict(p, amt) ==
    Payload("dict", p, PyStr("transfer"), "dogs", Absent, Absent, PyText(amt), Absent)

\* the payloads: sub-protocol mappings (an SRC-20 transfer of 1 and one of 2^64, an
\* SRC-721 record), a description of None, and descriptions whose base64 is
\* empty, a JPEG header, and text with and without its padding
StampPayloads ==
    { <<"mapping", TransferDict("src-20", <<"1">>), <<>> >>,
      <<"mapping", TransferDict("src-20", SubSeq(uint64_max, 1, 19) \o <<"6">>), <<>> >>,
      <<"mapping", TransferDict("src-721", <<"1">>), <<>> >>,
      <<"nodescription", NoDict, <<>> >>,
      <<"description", NoDict, <<>> >>,
      <<"description", NoDict, <<"/", "9", "j", "/">> >>,
      <<"description", NoDict, <<"Q", "U", "I", "=">> >>,
      <<"description", NoDict, <<"Q", "U", "I">> >> }

StampCpids == {PyNone, Text(<<"A", "1">>), Text(<<"B", "1">>)}

StampCandidates ==
    { Candidate(TRUE, Stamp(w[1], w[2], w[3], cpid), PyNone, o) :
        w \in StampPayloads, cpid \in StampCpids, o \in BOOLEAN }
    \cup { Candidate(TRUE, Stamp(w[1], w[2], w[3], Text(<<"A", "1">>)),
                     Text(<<"B", ".", "C">>), FALSE) : w \in StampPayloads }
    \cup { Candidate(FALSE, Stamp("nodescription", NoDict, <<>>, PyNone), PyNone, FALSE) }

InitStamp == EmptyDb

ParseStampCandidate == ops_done < StampMaxOps /\ \E c \in StampCandidates : ParseStamp(c)

NextStamp == ParseStampCandidate \/ InsertStamps

SpecStamp == InitStamp /\ [][NextStamp]_vars

\* ------------------------------------------------------------ statements
TracerMaxOps == 2     \* statements executed in one behaviour of SpecTracer

\* a statement: its text, the table it writes (none for a trigger or a table
\* definition), and its bindings
Statement(sql, table, bindings) == [sql |-> sql, table |-> table, bindings |-> bindings]

StatementTexts ==
    { <<Sql(<<"insert", "into", t, "">>, <<"values">>), t>> :
        t \in {"issuances", "sends", "blocks", "balances"} }
    \cup { <<Sql(<<"update", t, "set", "status", "=", "%s">>, <<>>), t>> :
        t \in {"orders", "issuances", "balances"} }
    \cup { <<Sql(<<"delete", "from", t, "where", "block_index", "=", "%s">>, <<>>), t>> :
        t \in {"sends", "transactions"} }
    \cup { <<Sql(<<"create", "trigger", "block_update", "before", "update", "on", "sends">>,
                 <<>>), "">>,
           <<Sql(<<"drop", "trigger", "block_update">>, <<>>), "">>,
           <<Sql(<<"create", "table", "sends", "">>, <<"tx_index">>), "">> }

StatementBindings ==
    { NoBindings, TupleBindings(<<"1", "2">>),
      DictBindings(<< <<"quantity", "1">>, <<"asset", "2">> >>),
      DictBindings(<< <<"quantity", "1">>, <<"asset_longname", "2">>, <<"asset", "3">> >>),
      DictBindings(<< <<"quantity", "1">>, <<"memo", "2">>, <<"asset", "3">> >>) }

Statements == { Statement(x[1], x[2], b) : x \in StatementTexts, b \in StatementBindings }

ExecuteStatement == ops_done < TracerMaxOps /\ \E st \in Statements : Execute(st)

NextTracer == ExecuteStatement \/ HashBlockMessages

SpecTracer == Init /\ [][NextTracer]_vars

\* ------------------------------------------------------------ the server
NextServer ==
    \E p \in Procs :
        \/ initialise(p)
        \/ start_all(p)
        \/ NextBlock(p)
        \/ WriteRows(p)
        \/ Commit(p)
        \/ sigterm_handler(p)

SpecServer == Init /\ [][NextServer]_vars

\* ------------------------------------------------------------ the oracle
OracleMaxOps == 2

\* ledger strings as process_balance_updates builds them
LocalLedgers ==
    { Join(<<Entry3("a", "A", <<"1">>), Entry3("c", "B", <<"2">>)>>, ";"),
      Entry3("a", "A", <<"1">>) }

\* ledger strings of the oracle: the entries of the first local ledger, the same
\* in another order, twice, with another amount, with another spelling of an
\* amount, without one entry, and strings that are no ledger
ApiLedgers ==
    { Join(<<Entry3("a", "A", <<"1">>), Entry3("c", "B", <<"2">>)>>, ";"),
      Join(<<Entry3("c", "B", <<"2">>), Entry3("a", "A", <<"1">>)>>, ";"),
      Join(<<Entry3("a", "A", <<"1">>), Entry3("a", "A", <<"1">>),
             Entry3("c", "B", <<"2">>)>>, ";"),
      Join(<<Entry3("a", "A", <<"1">>), Entry3("c", "B", <<"3">>)>>, ";"),
      Join(<<Entry3("a", "A", <<"1", ".", "0">>), Entry3("c", "B", <<"2">>)>>, ";"),
      Entry3("a", "A", <<"1">>),
      <<"a", ",", "A">>,
      Entry3("a", "A", <<"-">>) }

ApiResponses == {ApiFailure} \cup {ApiData(h, s) : h \in LedgerHashes, s \in ApiLedgers}

ValidateLedger ==
    /\ ops_done < OracleMaxOps
    /\ \E h \in LedgerHashes, s \in LocalLedgers, api \in ApiResponses :
           ValidateLedgerHash(h, s, api)

NextOracle == ValidateLedger

SpecOracle == Init /\ [][NextOracle]_vars

\* ------------------------------------------------------- SVG inputs
SvgMaxOps == 2

SvgDict(p, op, tick, max, lim, amt) ==
    [p |-> p, op |-> op, tick |-> tick, max |-> max, lim |-> lim, amt |-> amt]

SvgInputs ==
    { SvgDict(p, op, tick, max, lim, amt) :
        p \in {"src-20", "SRC-20"},
        op \in {"DEPLOY", "deploy", "MINT", "mint", "TRANSFER", "Transfer", "foo"},
        tick \in {"dogs", "CATS"}, max \in {"None", "1000"}, lim \in {"None", "10"},
        amt \in {"None", "5"} }

GenerateSvgOfInput == ops_done < SvgMaxOps /\ \E d \in SvgInputs : GenerateSvg(d)

NextSvg == GenerateSvgOfInput

SpecSvg == Init /\ [][NextSvg]_vars

\* ------------------------------------------------------ cpid inputs
CpidMaxOps == 2

Tx(cpid, tx_hash, tx_index, height) ==
    [cpid |-> cpid, tx_hash |-> tx_hash, tx_index |-> tx_index, block_index |-> height]

CpidTxs ==
    { Tx(cpid, tx_hash, tx_index, height) :
        cpid \in {PyNone, PyText(<<"A", "1">>)},
        tx_hash \in TxHashes, tx_index \in TxNumbers \ {120}, height \in TxNumbers \ {0} }

ParseStampOfTx == ops_done < CpidMaxOps /\ \E tx \in CpidTxs : ParseStampToTable(tx)

GetCpidOfTx == ops_done < CpidMaxOps /\ \E tx \in CpidTxs : GetCpid(tx)

NextCpid == ParseStampOfTx \/ GetCpidOfTx

SpecCpid == Init /\ [][NextCpid]_vars

\* ------------------------------------------------------ deploy payloads
DeployMaxOps == 2     \* payloads parsed in one behaviour of SpecDeploy

\* the max and lim of a DEPLOY payload: the key missing, null, "", a number, a
\* negative number
DeployFieldValues ==
    {Absent, PyNone, PyText(<<>>), PyText(<<"2">>), PyInt(3), PyText(<<"-", "1">>)}

DeployPayloads ==
    { Payload("dict", "src-20", PyStr(op), "dogs", max, lim, Absent, Absent) :
        op \in {"DEPLOY", "deploy"}, max \in DeployFieldValues, lim \in DeployFieldValues }
    \cup { Payload("dict", "src-20", PyStr("MINT"), "dogs", Absent, Absent,
                   PyText(<<"1">>), Absent) }

ParseDeployPayload ==
    ops_done < DeployMaxOps /\ \E input \in DeployPayloads : ParseSrc20(input, "A")

NextDeploy == ParseDeployPayload \/ EndBlock

SpecDeploy == Init /\ [][NextDeploy]_vars

\* ------------------------------------------------------ oracle answers
FetchMaxOps == 2      \* blocks validated in one behaviour of SpecFetch

ValidateBlock ==
    /\ ops_done < FetchMaxOps
    /\ \E configured \in BOOLEAN : CallFetch(configured, "h1", FetchLocalLedger)

RequestOracle == \E response \in HttpResponses : RequestRound(response)

NextFetch ==
    ValidateBlock \/ RequestOracle \/ Sleep \/ RaiseAfterRetries \/ FinishValidate

\* a call that has begun goes on: requests time out, sleeps end
SpecFetch == Init /\ [][NextFetch]_vars /\ WF_vars(NextFetch)

\* ================================================================ claims
\* valid DEPLOY records of a tick: the SRC20_VALID rows and those of the shadow list
ShadowValidDeploys(t) ==
    {i \in 1..Len(processed_src20_in_block) :
        /\ processed_src20_in_block[i].tick = t
        /\ processed_src20_in_block[i].op = "DEPLOY"
        /\ processed_src20_in_block[i].valid = 1}

ValidDeployCount(t) == Len(src20_valid_deploy[t]) + Cardinality(ShadowValidDeploys(t))

ValidDeployMaxes(t) ==
    {src20_valid_deploy[t][i].max : i \in 1..Len(src20_valid_deploy[t])}
    \cup {processed_src20_in_block[i].max : i \in ShadowValidDeploys(t)}

\* sum of amt over the valid MINT records of a tick, committed or in the block
RECURSIVE SumValidMints(_, _, _)
SumValidMints(shadow, t, i) ==
    IF i = 0 THEN 0
    ELSE SumValidMints(shadow, t, i - 1)
         + (IF shadow[i].op = "MINT" /\ shadow[i].tick = t /\ shadow[i].valid = 1
            THEN shadow[i].amt ELSE 0)

MintTotal(t) ==
    src20_valid_minted[t]
    + SumValidMints(processed_src20_in_block, t, Len(processed_src20_in_block))

\* net effect on (t, a) of the valid MINT / TRANSFER records of a shadow list
RECURSIVE NetEffect(_, _, _, _)
NetEffect(shadow, t, a, i) ==
    IF i = 0 THEN 0
    ELSE LET d == shadow[i]
             touches == d.valid = 1 /\ d.tick = t
             credit == IF touches /\ d.op \in {"MINT", "TRANSFER"} /\ d.destination = a
                       THEN d.amt ELSE 0
             debit == IF touches /\ d.op = "TRANSFER" /\ d.creator = a THEN d.amt ELSE 0
         IN NetEffect(shadow, t, a, i - 1) + credit - debit

TrueBalance(t, a) ==
    balances[t][a].amt
    + NetEffect(processed_src20_in_block, t, a, Len(processed_src20_in_block))

\* C1: for every tick at most one DEPLOY record is marked valid, whatever max and
\* lim the first DEPLOY carried
C1_AtMostOneValidDeploy == \A t \in Ticks : ValidDeployCount(t) <= 1

\* C2: for every tick the cumulative amt of its valid MINTs is at most the max of
\* the tick's (valid) DEPLOY
C2_MintTotalWithinMax ==
    \A t \in Ticks : \A m \in ValidDeployMaxes(t) : MintTotal(t) <= m

\* C3: every balance row has amt >= 0 after every block commit
C3_NoNegativeBalance ==
    \A t \in Ticks, a \in Addrs : balances[t][a].present => balances[t][a].amt >= 0

\* C4: the running balance get_running_user_balances returns for each requested
\* address (creator alone, or creator and destination looked up together) is the
\* persistent balance plus the net effect of every earlier valid in-block operation
C4_RunningBalanceSeesEarlierOps ==
    \A t \in Ticks, a \in Addrs, b \in Addrs :
        LET addresses == IF a = b THEN <<a>> ELSE <<a, b>>
            rb == get_running_user_balances(balances, t, addresses, processed_src20_in_block)
        IN  (~raised /\ ~rb.raised) =>
                \A k \in 1..Len(rb.balances) :
                    rb.balances[k].total_balance = TrueBalance(t, rb.balances[k].address)

\* ---- the last processed operation
LastOp == last.kind = "op" /\ ~raised
LastRec == last.p.src20_dict
LastDec == IF last.p.dec /= None THEN last.p.dec ELSE DefaultDec
ShadowBefore == SubSeq(processed_src20_in_block, 1, Len(processed_src20_in_block) - 1)

\* the last record is not marked valid, carries no running total, and changes
\* neither the fold of the block into the balance table nor any mint total
NoEffect ==
    /\ LastRec.valid = 0
    /\ ~last.p.is_valid
    /\ LastRec.keys = {}
    /\ update_src20_balances(balances, block_index, processed_src20_in_block)
         = update_src20_balances(balances, block_index, ShadowBefore)
    /\ \A t \in Ticks :
         /\ MintTotal(t) = src20_valid_minted[t] + SumValidMints(ShadowBefore, t, Len(ShadowBefore))
         /\ TOTAL_MINTED_CACHE[t].cached => TOTAL_MINTED_CACHE[t].amt = MintTotal(t)

\* what the fold of the block credits to (t, a) on top of the fold without the last record
FoldDelta(t, a) ==
    update_src20_balances(balances, block_index, processed_src20_in_block)[t][a].amt
    - update_src20_balances(balances, block_index, ShadowBefore)[t][a].amt

\* C5 as stated: a TRANSFER whose creator running balance is less than amt gets BB,
\* is invalid and changes no balance; otherwise it is valid and shadow-records
\* creator - amt and destination + amt
C5_TransferOriginal ==
    (LastOp /\ last.input.op = "TRANSFER" /\ LastRec.status \notin {"NA", "ND"}) =>
        IF last.p.balance_creator < last.input.amt
        THEN LastRec.status = "BB" /\ NoEffect
        ELSE /\ LastRec.valid = 1
             /\ LastRec.total_balance_creator = last.p.balance_creator - last.input.amt
             /\ LastRec.total_balance_destination = last.p.balance_destination + last.input.amt

\* C5 amended: a TRANSFER whose creator running balance is less than amt gets BB, is
\* invalid and changes no balance; otherwise, if amt has at most dec fractional
\* digits, it is valid and shadow-records creator - amt and destination + amt, and
\* if amt has more fractional digits it gets ID, is invalid and changes no balance
C5_TransferBalanceCheck ==
    (LastOp /\ last.input.op = "TRANSFER" /\ LastRec.status \notin {"NA", "ND"}) =>
        IF last.p.balance_creator < last.input.amt
        THEN LastRec.status = "BB" /\ NoEffect
        ELSE IF DecimalLength(last.input.amt) <= LastDec
        THEN /\ LastRec.valid = 1 /\ last.p.is_valid /\ LastRec.status = ""
             /\ LastRec.amt = last.input.amt
             /\ {"total_balance_creator", "total_balance_destination"} \subseteq LastRec.keys
             /\ LastRec.total_balance_creator = last.p.balance_creator - last.input.amt
             /\ LastRec.total_balance_destination = last.p.balance_destination + last.input.amt
        ELSE LastRec.status = "ID" /\ NoEffect

C5_Witness ==
    /\ LastOp /\ last.input.op = "TRANSFER" /\ LastRec.valid = 1
    /\ LastRec.creator /= LastRec.destination
    /\ last.p.balance_creator = last.input.amt

\* C6: a MINT that is not rejected is credited with
\* amt' = min(requested amt, deploy.max - total_minted, min(deploy.lim, deploy.max)),
\* clamped first to the remaining supply (OMA), then to the per-mint cap (ODL); the
\* record is valid, the destination is credited amt' and total_minted grows by amt'
C6_MintClamp ==
    (LastOp /\ last.input.op = "MINT" /\ LastRec.status \notin {"NA", "ND", "OM", "ID"}) =>
        LET remaining == last.p.deploy_max - last.p.total_minted
            cap == Min(last.p.deploy_lim, last.p.deploy_max)
            amt1 == Min(last.input.amt, remaining)
            amt2 == Min(amt1, cap)
        IN  /\ LastRec.valid = 1 /\ last.p.is_valid
            /\ LastRec.amt = amt2
            /\ last.p.log = (IF last.input.amt > remaining THEN <<"OMA">> ELSE <<>>)
                            \o (IF amt1 > cap THEN <<"ODL">> ELSE <<>>)
            /\ LastRec.total_minted = last.p.total_minted + amt2
            /\ MintTotal(LastRec.tick)
                 = src20_valid_minted[LastRec.tick]
                   + SumValidMints(ShadowBefore, LastRec.tick, Len(ShadowBefore)) + amt2
            /\ LastRec.total_balance_destination = last.p.balance_destination + amt2
            /\ FoldDelta(LastRec.tick, LastRec.destination) = amt2

C6_Witness ==
    /\ LastOp /\ last.input.op = "MINT" /\ LastRec.valid = 1
    /\ last.p.log = <<"OMA", "ODL">>
    /\ LastRec.amt > 0 /\ LastRec.amt < last.input.amt

\* C7: for every deployed tick, whatever its max and lim, a MINT processed when the
\* running total_minted >= deploy.max gets OM, is invalid and credits nothing
C7_OverMintRejected ==
    (LastOp /\ last.input.op = "MINT" /\ LastRec.status \notin {"NA", "ND"}
        /\ last.p.total_minted >= last.p.deploy_max) =>
        LastRec.status = "OM" /\ NoEffect

\* ---- scenario 'DEPLOY then MINT overflow', played in one block on a tick that
\* was not deployed before
ScenarioPlayed(inputs) ==
    /\ last.kind = "op" /\ ~raised
    /\ last.inputs = inputs
    /\ src20_valid_deploy["dogs"] = <<>>

\* C8 as stated: after DEPLOY dogs max=1000 lim=100 dec=0 and MINT 60 to A
\* (total_minted = 60), MINT 950 to B is clamped with OMA to 940 so that
\* total_minted becomes 1000, and the next MINT of 1 is rejected with OM
C8_ScenarioOriginal ==
    /\ ScenarioPlayed(<<ScenarioDeploy, ScenarioMint60>>) =>
          LastRec.valid = 1 /\ LastRec.total_minted = 60 * Unit
    /\ ScenarioPlayed(<<ScenarioDeploy, ScenarioMint60, ScenarioMint950>>) =>
          /\ LastRec.valid = 1 /\ "OMA" \in {last.p.log[i] : i \in 1..Len(last.p.log)}
          /\ LastRec.amt = 940 * Unit
          /\ LastRec.total_minted = 1000 * Unit
    /\ ScenarioPlayed(<<ScenarioDeploy, ScenarioMint60, ScenarioMint950, ScenarioMint1>>) =>
          LastRec.status = "OM" /\ LastRec.valid = 0

\* C8 amended: after DEPLOY dogs max=1000 lim=100 dec=0 and MINT 60 to A
\* (total_minted = 60), MINT 950 to B is clamped with OMA to 940 and then with ODL
\* to the per-mint cap 100, so that total_minted becomes 160, and the next MINT of
\* 1 is valid (total_minted = 161)
C8_Scenario ==
    /\ ScenarioPlayed(<<ScenarioDeploy, ScenarioMint60>>) =>
          LastRec.valid = 1 /\ LastRec.total_minted = 60 * Unit
    /\ ScenarioPlayed(<<ScenarioDeploy, ScenarioMint60, ScenarioMint950>>) =>
          /\ LastRec.valid = 1 /\ last.p.log = <<"OMA", "ODL">> /\ LastRec.status = "ODL"
          /\ LastRec.amt = 100 * Unit
          /\ LastRec.total_minted = 160 * Unit
          /\ LastRec.total_balance_destination = 100 * Unit
    /\ ScenarioPlayed(<<ScenarioDeploy, ScenarioMint60, ScenarioMint950, ScenarioMint1>>) =>
          /\ LastRec.valid = 1 /\ LastRec.status = ""
          /\ LastRec.amt = Unit
          /\ LastRec.total_minted = 161 * Unit

C8_Witness ==
    ScenarioPlayed(<<ScenarioDeploy, ScenarioMint60, ScenarioMint950, ScenarioMint1>>)

\* C9 as stated: a MINT or TRANSFER with amt missing gets NA and is invalid, whether
\* or not the tick is deployed; one with amt present for a tick that has no DEPLOY
\* gets ND and is invalid; in both cases no balance or mint total changes
C9_MissingAmtNoDeployOriginal ==
    (LastOp /\ last.input.op \in {"MINT", "TRANSFER"}) =>
        /\ last.input.amt = None => LastRec.status = "NA" /\ NoEffect
        /\ (last.input.amt /= None /\ ValidDeployCount(last.input.tick) = 0) =>
               LastRec.status = "ND" /\ NoEffect

\* C9 amended: a MINT or TRANSFER with amt missing or zero gets NA and is invalid,
\* whether or not the tick is deployed; one with a non-zero amt for a tick that has
\* no DEPLOY gets ND and is invalid; in both cases no balance or mint total changes
C9_MissingAmtNoDeploy ==
    (LastOp /\ last.input.op \in {"MINT", "TRANSFER"}) =>
        /\ last.input.amt \in {None, 0} => LastRec.status = "NA" /\ NoEffect
        /\ (last.input.amt \notin {None, 0} /\ ValidDeployCount(last.input.tick) = 0) =>
               LastRec.status = "ND" /\ NoEffect

C9_Witness ==
    /\ LastOp /\ last.input.op = "MINT" /\ last.input.amt = 0
    /\ LastRec.status = "NA"
    /\ ValidDeployCount(last.input.tick) = 1

\* C10 as stated: for MINT and TRANSFER an amt with more fractional digits than
\* deploy.dec gets ID, is invalid and changes no balance or mint total; an amt with
\* at most deploy.dec fractional digits is not rejected for decimals
C10_DecimalsOriginal ==
    (LastOp /\ last.input.op \in {"MINT", "TRANSFER"} /\ LastRec.status \notin {"NA", "ND"}) =>
        /\ DecimalLength(last.input.amt) > LastDec => LastRec.status = "ID" /\ NoEffect
        /\ DecimalLength(last.input.amt) <= LastDec => LastRec.status /= "ID"

\* C10 amended: for a MINT that is not over mint (OM) and a TRANSFER that passed the
\* balance check (BB), the amt as it stands after the MINT clamps gets ID, is
\* invalid and changes no balance or mint total when it has more fractional digits
\* than deploy.dec, and is accepted when it has at most deploy.dec; a requested amt
\* with at most deploy.dec fractional digits is never rejected for decimals
C10_Decimals ==
    (LastOp /\ last.input.op \in {"MINT", "TRANSFER"} /\ LastRec.status \notin {"NA", "ND"}) =>
        /\ LastRec.status \notin {"OM", "BB"} =>
              IF DecimalLength(LastRec.amt) > LastDec
              THEN LastRec.status = "ID" /\ NoEffect
              ELSE LastRec.valid = 1 /\ LastRec.status /= "ID"
        /\ DecimalLength(last.input.amt) <= LastDec => LastRec.status /= "ID"

C10_Witness ==
    /\ LastOp /\ last.input.op = "MINT" /\ LastRec.status = "ID"
    /\ LastDec = 0 /\ last.input.amt = Half

\* ---- the first-pass validator
\* the Python value v denotes the integer n
DenotesInt(v, n) ==
    \/ v.t = "int" /\ v.n = n
    \/ v.t = "D" /\ v.n = n * Unit
    \/ v.t = "text" /\ v.s = IntToDigits(n)

DecIsIntegerInRange(v) == \E n \in 0..18 : DenotesInt(v, n)

\* the tick of the last record had no valid DEPLOY before the record was processed
UndeployedBefore ==
    /\ src20_valid_deploy[LastRec.tick] = <<>>
    /\ \A i \in 1..Len(ShadowBefore) :
          ~(ShadowBefore[i].tick = LastRec.tick /\ ShadowBefore[i].op = "DEPLOY"
            /\ ShadowBefore[i].valid = 1)

\* the last record is not marked valid and the DEPLOY of its tick is what it was
RejectedDeploy ==
    /\ LastRec.valid = 0 /\ ~last.p.is_valid
    /\ get_src20_deploy(LastRec.tick, processed_src20_in_block, src20_valid_deploy)
         = get_src20_deploy(LastRec.tick, ShadowBefore, src20_valid_deploy)

\* the last record is a valid DEPLOY with dec = n, and the tick is deployed with it
AcceptedDeployWithDec(n) ==
    /\ LastRec.valid = 1 /\ last.p.is_valid /\ LastRec.dec = n
    /\ get_src20_deploy(LastRec.tick, processed_src20_in_block, src20_valid_deploy).dec = n

\* C11 as stated: a DEPLOY whose dec is not an integer in [0, 18] is rejected (not
\* marked valid, the tick remains undeployed); a DEPLOY that omits dec is accepted
\* with dec = 18
C11_DecRangeOriginal ==
    (LastOp /\ last.input.op = "DEPLOY") =>
        /\ (last.raw.dec /= Absent /\ ~DecIsIntegerInRange(last.raw.dec)) => RejectedDeploy
        /\ (last.raw.dec = Absent /\ UndeployedBefore) => AcceptedDeployWithDec(DefaultDec)

\* C11 amended: a DEPLOY whose dec is present, is not the empty string and is not an
\* integer in [0, 18] (19, 1.5, -1, None, a word) is rejected: it is not marked
\* valid and the tick stays as it was; a DEPLOY of an undeployed tick whose dec is
\* omitted or is the empty string is accepted with dec = 18, and one whose dec is
\* an integer in [0, 18] is accepted with that dec
C11_DecRange ==
    (LastOp /\ last.input.op = "DEPLOY") =>
        /\ (last.raw.dec /= Absent /\ last.raw.dec /= PyText(<<>>)
              /\ ~DecIsIntegerInRange(last.raw.dec)) => RejectedDeploy /\ LastRec.status = "NN"
        /\ (last.raw.dec \in {Absent, PyText(<<>>)} /\ UndeployedBefore) =>
              AcceptedDeployWithDec(DefaultDec)
        /\ \A n \in 0..18 : (DenotesInt(last.raw.dec, n) /\ UndeployedBefore) =>
              AcceptedDeployWithDec(n)

\* a DEPLOY with dec = "19" was rejected and the DEPLOY without dec after it accepted
C11_Witness ==
    /\ LastOp /\ Len(last.inputs) = 2
    /\ last.inputs[1].op = PyStr("DEPLOY") /\ last.inputs[1].dec = PyText(<<"1", "9">>)
    /\ processed_src20_in_block[1].valid = 0
    /\ last.raw.op = PyStr("DEPLOY") /\ last.raw.dec = Absent
    /\ LastRec.valid = 1 /\ LastRec.dec = DefaultDec

\* C12: every record whose op is not DEPLOY, MINT or TRANSFER (BULK_XFER, any other
\* string, an empty string or a missing op) ends with status UO and is invalid, and
\* processing it never raises an exception
C12_UnknownOpIsUO ==
    (last.kind = "op"
       /\ (last.raw.op = Absent
           \/ (last.raw.op.t = "str"
               /\ UpperP(last.raw.op.s) \notin {"DEPLOY", "MINT", "TRANSFER"}))) =>
        /\ ~raised
        /\ LastRec.status = "UO" /\ LastRec.valid = 0 /\ ~last.p.is_valid

\* C13: for every processed record the final status decides validity: the record is
\* marked valid (valid = 1, is_valid true) iff its final status is absent, OMA or
\* ODL; a record whose final status is DE, ND, OM, NA, BB, UO or ID is not marked
\* valid and parse_src20 returns is_valid = false for it
C13_StatusDecidesValidity ==
    LastOp =>
        /\ (LastRec.valid = 1 /\ last.p.is_valid) <=> LastRec.status \in {"", "OMA", "ODL"}
        /\ LastRec.status \in {"DE", "ND", "OM", "NA", "BB", "UO", "ID"} =>
              LastRec.valid = 0 /\ ~last.p.is_valid

\* ---- the last block commit
LastCommit == last.kind = "commit"
CommittedHeight == block_index - 1

\* (t, a) is the destination of a valid MINT or the creator or destination of a
\* valid TRANSFER of the committed block
TouchedByBlock(t, a) ==
    \E i \in 1..Len(last.shadow) :
        /\ last.shadow[i].valid = 1 /\ last.shadow[i].tick = t
        /\ \/ last.shadow[i].op = "MINT" /\ last.shadow[i].destination = a
           \/ last.shadow[i].op = "TRANSFER"
              /\ a \in {last.shadow[i].creator, last.shadow[i].destination}

\* C14: update_src20_balances folds a block so that for every (tick, address) the
\* row's amt after the update is its amt before (0 if the row was absent) plus the
\* amt of the block's valid MINTs and TRANSFERs crediting the address minus the amt
\* of the valid TRANSFERs debiting it; the contributions are combined into one net
\* change per (tick, address) before storage is touched, and last_update of the
\* written rows is the block height
C14_FoldIsNetChange ==
    LastCommit =>
        LET updates == balance_updates_of(last.shadow)
        IN  /\ \A t \in Ticks, a \in Addrs :
                  balances[t][a].amt
                    = last.balances[t][a].amt + NetEffect(last.shadow, t, a, Len(last.shadow))
            /\ \A i, j \in 1..Len(updates) :
                  (updates[i].tick = updates[j].tick /\ updates[i].address = updates[j].address)
                      => i = j
            /\ \A t \in Ticks, a \in Addrs :
                  TouchedByBlock(t, a) <=>
                      \E i \in 1..Len(updates) : updates[i].tick = t /\ updates[i].address = a
            /\ \A t \in Ticks, a \in Addrs :
                  TouchedByBlock(t, a) =>
                      balances[t][a].present /\ balances[t][a].last_update = CommittedHeight

\* a block in which D, who had a row, is debited and credited, and A gets a new row
C14_Witness ==
    /\ LastCommit
    /\ last.balances["dogs"]["D"].present /\ ~last.balances["dogs"]["A"].present
    /\ \E i, j \in 1..Len(last.shadow) :
          /\ last.shadow[i].valid = 1 /\ last.shadow[i].op = "TRANSFER"
          /\ last.shadow[i].creator = "D" /\ last.shadow[i].destination = "A"
          /\ last.shadow[j].valid = 1 /\ last.shadow[j].op = "TRANSFER"
          /\ last.shadow[j].creator = "A" /\ last.shadow[j].destination = "D"
    /\ balances["dogs"]["A"].present
    /\ balances["dogs"]["D"].last_update = CommittedHeight

\* C15: records that are not marked valid, and DEPLOY records, never change a
\* balance: every row that is not the destination of a valid MINT or the creator or
\* destination of a valid TRANSFER of the block is left as it was (amt, presence and
\* last_update), and a block without a valid MINT or TRANSFER writes nothing
C15_FrameOfBalanceUpdate ==
    LastCommit =>
        /\ \A t \in Ticks, a \in Addrs :
              ~TouchedByBlock(t, a) => balances[t][a] = last.balances[t][a]
        /\ (\A i \in 1..Len(last.shadow) :
                ~(last.shadow[i].valid = 1 /\ last.shadow[i].op \in {"MINT", "TRANSFER"}))
              => /\ balance_updates_of(last.shadow) = <<>>
                 /\ balances = last.balances

\* a block holding a valid DEPLOY and a rejected MINT or TRANSFER is committed
\* while a row written by an earlier block is stored
C15_Witness ==
    /\ LastCommit
    /\ \E i \in 1..Len(last.shadow) : last.shadow[i].valid = 1 /\ last.shadow[i].op = "DEPLOY"
    /\ \E i \in 1..Len(last.shadow) :
          last.shadow[i].valid /= 1 /\ last.shadow[i].op \in {"MINT", "TRANSFER"}
    /\ \E t \in Ticks, a \in Addrs :
          /\ last.balances[t][a].present /\ ~TouchedByBlock(t, a)
          /\ balances[t][a].last_update < CommittedHeight

\* ---- the canonical ledger string
\* the (tick, address) rows the committed block mutated
MutatedRows == {r \in Ticks \X Addrs : TouchedByBlock(r[1], r[2])}

LedgerEntries == IF last.ledger = <<>> THEN <<>> ELSE Split(last.ledger, ";")

\* the value a decimal string denotes, in Units
ValueOfText(s) ==
    IF s /= <<>> /\ s[1] = "-" THEN 0 - DecimalOf(Tail(s)).n ELSE DecimalOf(s).n

\* s is the shortest way to write its value: digits, an optional sign, and a point
\* only when a non-zero fractional digit follows it
IsCanonicalAmt(s) ==
    LET body == IF s /= <<>> /\ s[1] = "-" THEN Tail(s) ELSE s
        dot == IndexOf(body, ".")
    IN  /\ body /= <<>>
        /\ \A i \in 1..Len(body) : IsDigit(body[i]) \/ i = dot
        /\ dot > 1
        /\ dot <= Len(body) => dot < Len(body) /\ body[Len(body)] /= "0"
        /\ (Len(body) > 1 /\ body[1] = "0") => dot = 2

\* C16: the ledger string of a block has exactly one entry tick,address,amt for
\* every row mutated by the block's valid operations; amt is the row's balance
\* after the update (balance before + net change), written without trailing zeros,
\* without a decimal point for integers and as 0 for zero; the entries are sorted
\* by tick_address and joined with ';'
C16_LedgerString ==
    LastCommit =>
        /\ Len(LedgerEntries) = Cardinality(MutatedRows)
        /\ \A r \in MutatedRows :
              \E k \in 1..Len(LedgerEntries) :
                 LET f == Split(LedgerEntries[k], ",")
                 IN  /\ Len(f) = 3
                     /\ f[1] = Chars(r[1]) /\ f[2] = Chars(r[2])
                     /\ IsCanonicalAmt(f[3])
                     /\ ValueOfText(f[3]) = balances[r[1]][r[2]].amt
                     /\ ValueOfText(f[3]) = last.balances[r[1]][r[2]].amt
                            + NetEffect(last.shadow, r[1], r[2], Len(last.shadow))
                     /\ balances[r[1]][r[2]].amt = 0 => f[3] = <<"0">>
                     /\ balances[r[1]][r[2]].amt % Unit = 0 => \A i \in 1..Len(f[3]) : f[3][i] /= "."
        /\ \A k \in 1..(Len(LedgerEntries) - 1) :
              StrLess(LedgerKey(LedgerEntries[k]), LedgerKey(LedgerEntries[k + 1]))

\* a block whose ledger has a fractional amount and an integer amount, and whose
\* rows were first touched in the reverse of their ledger order
C16_Witness ==
    /\ LastCommit
    /\ Len(LedgerEntries) >= 2
    /\ \E k \in 1..Len(LedgerEntries) : \E i \in 1..Len(LedgerEntries[k]) : LedgerEntries[k][i] = "."
    /\ \E k \in 1..Len(LedgerEntries) : \A i \in 1..Len(LedgerEntries[k]) : LedgerEntries[k][i] /= "."
    /\ LET updates == balance_updates_of(last.shadow)
       IN  StrLess(Chars(updates[2].tick) \o <<"_">> \o Chars(updates[2].address),
                   Chars(updates[1].tick) \o <<"_">> \o Chars(updates[1].address))

\* ---- the same block in another order
OrdersOf(n) == {f \in [1..n -> 1..n] : \A i, j \in 1..n : f[i] = f[j] => i = j}

Permuted(list, f) == [i \in 1..Len(list) |-> list[f[i]]]

\* the annotated balance_updates list of the committed block, its records taken in
\* the order f
BalanceUpdatesIn(f) ==
    AnnotatedUpdates(last.balances, balance_updates_of(Permuted(last.shadow, f)), 1,
                     CommittedHeight)

\* C17: the same operations of one block, with the same valid marks, in any other
\* order give the same canonical ledger string and the same balances, and
\* process_balance_updates returns the same string for every permutation of the
\* balance-update list
C17_LedgerDeterminism ==
    LastCommit =>
        /\ \A f \in OrdersOf(Len(last.shadow)) :
              /\ process_balance_updates(BalanceUpdatesIn(f)) = last.ledger
              /\ update_src20_balances(last.balances, CommittedHeight,
                                       Permuted(last.shadow, f)) = balances
        /\ LET updates == AnnotatedUpdates(last.balances, balance_updates_of(last.shadow), 1,
                                           CommittedHeight)
           IN  \A g \in OrdersOf(Len(updates)) :
                  process_balance_updates(Permuted(updates, g)) = last.ledger

\* a block of three valid operations with three ledger entries, of which another
\* order builds the balance-update list in another order
C17_Witness ==
    /\ LastCommit
    /\ Len(last.shadow) = 3
    /\ \A i \in 1..3 : last.shadow[i].valid = 1
    /\ Len(LedgerEntries) = 3
    /\ \E f \in OrdersOf(3) :
          LET here == balance_updates_of(last.shadow)
              there == balance_updates_of(Permuted(last.shadow, f))
          IN  \E i \in 1..Len(here) : here[i].address /= there[i].address

\* ---- the format check
LastFormat == last.kind = "format"

\* the format check of an SRC-20 payload with a tick
Src20Format == LastFormat /\ last.payload.p = "src-20" /\ last.payload.tick /= ""

\* the number a field denotes, as it is written
Denoted(v) ==
    CASE v.t \in {"jstr", "text", "jnum", "float"} -> D(v.s)
      [] v.t = "jconst" -> IF v.c = "NaN" THEN DecNaN ELSE DecInf(v.c = "-Infinity")
      [] v.t = "int" -> D(StrOf(v))
      [] v.t = "Decimal" -> v.d
      [] OTHER -> InvalidOperation

IsQuoted(v) == v.t \in {"jstr", "text"}

\* the number left of a quoted field when only its digits and points are kept
DenotedByDigits(v) == D(SelectSeq(v.s, LAMBDA c : IsDigit(c) \/ c = "."))

\* NaN, negative, or greater than 2^64 - 1
OutOfUint64(d) ==
    \/ d.kind = "nan"
    \/ d.kind = "inf"
    \/ d.kind = "num" /\ d.neg /\ ~IsZero(d)
    \/ /\ d.kind = "num" /\ ~d.neg
       /\ \/ Len(d.ip) > Len(uint64_max)
          \/ /\ Len(d.ip) = Len(uint64_max)
             /\ ~DigitsLess(d.ip, uint64_max)
             /\ ~(d.ip = uint64_max /\ d.fp = <<>>)

TwoTo64 == SubSeq(uint64_max, 1, Len(uint64_max) - 1) \o <<"6">>

\* amt = 2^64 - 1 is accepted and amt = 2^64 is rejected
Uint64Boundary ==
    (Src20Format /\ last.payload.op /= Absent /\ last.payload.max = Absent)
        => /\ last.payload.amt \in {JStr(uint64_max), JNum(uint64_max), PyText(uint64_max),
                                    PyBig(D(uint64_max))}
                => last.result.accepted
           /\ last.payload.amt \in {JStr(TwoTo64), JNum(TwoTo64), PyText(TwoTo64),
                                    PyBig(D(TwoTo64))}
                => ~last.result.accepted

WrittenWithExponent(v) == v.t \in {"jstr", "text", "jnum"} /\ HasSci(v.s)

\* C19: at every height check_format returns None for an SRC-20 payload in which a
\* numeric field (max, lim, amt) contains the character e or E, whether the field
\* is a JSON number, a quoted string or a value of an already parsed dict
C19_SciNotationRejected ==
    Src20Format =>
        \A k \in NumericKeys :
           (last.payload[k] /= Absent /\ WrittenWithExponent(last.payload[k]))
               => ~last.result.accepted

\* ---- base64
LastBase64 == last.kind = "base64"

\* the string is a padded base64 string of which the last '=' was dropped
MissingOnePad(s) == Len(s) % 4 = 3 /\ check_valid_base64_string(s \o <<"=">>)

\* C20: a base64 string missing one '=' of padding gives decoded bytes at a height
\* <= STOP_BASE64_REPAIR, where it is first padded to a multiple of four; at a
\* height above it the string is not padded and decode_base64 returns
\* is_valid_base64 = False with no decoded bytes, and no file is stored
C20_Base64RepairCutoff ==
    (LastBase64 /\ MissingOnePad(last.base64_string)) =>
        /\ last.block_index <= STOP_BASE64_REPAIR =>
              /\ ~last.image_data.none
              /\ last.image_data = b64decode(last.base64_string \o <<"=">>)
        /\ last.block_index > STOP_BASE64_REPAIR =>
              /\ last.image_data.none
              /\ last.is_valid_base64 = "False"
              /\ ~last.stored

\* ---- the last parsed stamp
LastStamp == last.kind = "stamp"

\* parse_stamp returned a stamp record
StampReturned == LastStamp /\ last.result.outcome = "stamp"

\* the five conditions of a BTC stamp, on the candidate and its identification
BtcStampConditions ==
    /\ last.result.stamp_data.ident /= "UNKNOWN"
    /\ last.candidate.asset_longname = PyNone
    /\ IsText(last.candidate.stamp.cpid)
    /\ StartsWith(last.candidate.stamp.cpid, "A")
    /\ ~last.candidate.is_op_return
    /\ last.result.stamp_data.file_suffix \notin INVALID_BTC_STAMP_SUFFIX

\* C21: in every stamp record parse_stamp returns, is_btc_stamp = 1 iff ident is
\* not UNKNOWN, asset_longname is absent, cpid begins with 'A', the transaction is
\* not OP_RETURN-only and file_suffix is not in INVALID_BTC_STAMP_SUFFIX; also for
\* a candidate that went through the SRC-20 or the SRC-721 branch
C21_BtcStampIff ==
    StampReturned => ((last.result.stamp_data.is_btc_stamp = 1) <=> BtcStampConditions)

\* the candidates outside the sub-protocol branches do satisfy the equivalence
C21_OutsideBranches ==
    (StampReturned /\ last.result.stamp_data.ident \notin SUPPORTED_SUB_PROTOCOLS)
        => ((last.result.stamp_data.is_btc_stamp = 1) <=> BtcStampConditions)

\* an SRC-20 candidate below CP_SRC20_END_BLOCK never comes back from parse_stamp
C21_Src20BranchRaises ==
    (LastStamp /\ last.candidate.valid_data /\ last.candidate.stamp.kind = "mapping"
       /\ last.candidate.stamp.p = "src-20" /\ last.block_index < CP_SRC20_END_BLOCK
       /\ ~check_reissue(last.table, last.candidate.stamp.cpid, last.valid))
        => last.result.outcome = "TypeError"

\* ---- stamp numbers
\* the stamp records so far, in block order and transaction order
AllStamps == StampTableV4 \o parsed_stamps

IsBtc(row) == row.is_btc_stamp = 1
IsCursed(row) == row.is_btc_stamp /= 1 /\ row.is_cursed = 1

C22_WitnessUnnumbered ==
    /\ StampReturned
    /\ last.result.stamp_data.stamp = None
    /\ Len(parsed_stamps) = 2
    /\ IsBtc(parsed_stamps[1])

\* ---- reissues
\* the candidate's cpid is that of a numbered record parsed before it
CpidNumberedBefore ==
    LET before == last.table \o last.in_block
        cpid == last.candidate.stamp.cpid
    IN  /\ last.candidate.valid_data
        /\ IsText(cpid)
        /\ \E i \in 1..Len(before) : before[i].stamp /= None /\ before[i].cpid = cpid

\* C23: a candidate whose cpid is that of a stamp numbered before it, in an
\* earlier block or earlier in the same block, BTC or cursed, is dropped by
\* parse_stamp without a number, and no cpid is numbered twice
C23_ReissueDropped ==
    /\ (LastStamp /\ CpidNumberedBefore) =>
          /\ last.result.outcome = "None"
          /\ stamp_counter = last.counters
    /\ \A i, j \in 1..Len(AllStamps) :
          (i < j /\ AllStamps[i].stamp /= None /\ AllStamps[j].stamp /= None
             /\ IsText(AllStamps[i].cpid))
              => AllStamps[i].cpid /= AllStamps[j].cpid

\* a reissue is dropped when the earlier stamp is in the stamp table under the
\* same cpid, or is a BTC stamp of the same block
C23_ReissueOfStoredOrValid ==
    (LastStamp /\ last.candidate.valid_data
       /\ IsText(last.candidate.stamp.cpid)
       /\ \/ \E i \in 1..Len(last.table) :
                /\ last.table[i].stamp /= None
                /\ last.table[i].cpid = last.candidate.stamp.cpid
          \/ \E i \in 1..Len(last.in_block) :
                /\ IsBtc(last.in_block[i])
                /\ last.in_block[i].cpid = last.candidate.stamp.cpid)
        => (last.result.outcome = "None" /\ stamp_counter = last.counters)

\* ---- the SRC-20 branch
\* the candidate reaches line 421 identified as SRC-20 below CP_SRC20_END_BLOCK
ReachesSrc20Branch ==
    /\ LastStamp
    /\ last.candidate.valid_data
    /\ ~check_reissue(last.table, last.candidate.stamp.cpid, last.valid)
    /\ valid_src20(check_decoded_data_fetch_ident(
                       get_src_or_img_from_data(last.candidate.stamp,
                                                last.block_index).decoded_base64,
                       last.block_index).ident,
                   last.block_index)

FormatCheckRejects == ~check_format(last.candidate.stamp.dict, last.block_index).accepted

\* C24: for a candidate identified as SRC-20 below CP_SRC20_END_BLOCK whose payload
\* the format check rejects, parse_stamp returns (None, None, None, None): no stamp
\* record, no valid stamp, no SRC-20 operation, and both counters are unchanged
C24_RejectedSrc20Returns ==
    (ReachesSrc20Branch /\ FormatCheckRejects) =>
        /\ last.result.outcome = "None"
        /\ stamp_counter = last.counters
        /\ parsed_stamps = last.in_block
        /\ valid_stamps_in_block = last.valid

\* what does hold of every candidate that reaches the branch: parse_stamp raises
\* the TypeError, with no record and no number
C24_Src20BranchRaises ==
    ReachesSrc20Branch =>
        /\ last.result.outcome = "TypeError"
        /\ raised
        /\ stamp_counter = last.counters
        /\ parsed_stamps = last.in_block
        /\ valid_stamps_in_block = last.valid

\* ---- payloads of zero bytes
\* the description of the candidate decodes to zero bytes, and the candidate is
\* not dropped as a reissue
DecodesToZeroBytes ==
    /\ LastStamp
    /\ last.candidate.valid_data
    /\ ~check_reissue(last.table, last.candidate.stamp.cpid, last.valid)
    /\ get_src_or_img_from_data(last.candidate.stamp, last.block_index).decoded_base64
          = Decoded("bytes", "", <<>>)

\* C25: a payload that decodes to zero bytes has ident UNKNOWN and no file suffix,
\* no file is stored for it, it takes no BTC and no cursed number whatever its
\* cpid and its OP_RETURN flag, and parse_stamp does not raise
C25_ZeroBytesNoStamp ==
    DecodesToZeroBytes =>
        /\ last.result.outcome = "stamp"
        /\ last.result.stamp_data.ident = "UNKNOWN"
        /\ last.result.stamp_data.file_suffix = NoText
        /\ ~last.result.stored
        /\ last.result.stamp_data.stamp = None
        /\ stamp_counter = last.counters

\* what does hold: ident UNKNOWN, no suffix, no file, no exception, never a BTC stamp
C25_ZeroBytesUnknown ==
    DecodesToZeroBytes =>
        /\ last.result.outcome = "stamp"
        /\ last.result.stamp_data.ident = "UNKNOWN"
        /\ last.result.stamp_data.file_suffix = NoText
        /\ ~last.result.stored
        /\ ~IsBtc(last.result.stamp_data)
        /\ last.result.valid_stamp = NoValidStamp

\* ---- the block-messages buffer
LastExec == last.kind = "exec"

IsDml(statement) == statement.sql.array[1] \in {"insert", "update", "delete"}

\* the buffer holds what it held, then one entry of the statement's command and
\* table whose dict bindings are in key order
OneEntryAppended ==
    /\ Len(BLOCK_MESSAGES) = Len(last.before) + 1
    /\ SubSeq(BLOCK_MESSAGES, 1, Len(last.before)) = last.before
    /\ LET entry == BLOCK_MESSAGES[Len(BLOCK_MESSAGES)]
       IN  /\ entry[1] = last.statement.sql.array[1]
           /\ entry[2] = last.statement.table
           /\ last.statement.bindings.t = "dict" =>
                 \A i, j \in 1..Len(entry[3]) :
                    i < j => KeyRank(entry[3][i][1]) < KeyRank(entry[3][j][1])

\* C26: every INSERT, UPDATE or DELETE statement on a table outside the skip list
\* appends exactly one entry (command, category, sorted bindings) at the end of
\* the buffer; a statement on a table of the skip list, a CREATE TRIGGER and a
\* DROP TRIGGER statement append nothing
C26_EveryDmlOneEntry ==
    LastExec =>
        IF IsDml(last.statement) /\ last.statement.table \notin skip_tables
        THEN last.outcome = "True" /\ OneEntryAppended
        ELSE BLOCK_MESSAGES = last.before

\* what does hold: an INSERT or UPDATE with a tuple of bindings appends its one
\* entry, a statement that is none of the three or whose table is in the skip
\* list appends nothing, and the buffer only grows at its end
C26_InsertUpdateOfTuple ==
    LastExec =>
        /\ (last.statement.sql.array[1] \in {"insert", "update"}
              /\ last.statement.table \notin skip_tables
              /\ last.statement.bindings.t = "tuple")
               => (last.outcome = "True" /\ OneEntryAppended)
        /\ (~IsDml(last.statement) \/ last.statement.table \in skip_tables)
               => BLOCK_MESSAGES = last.before
        /\ Len(BLOCK_MESSAGES) >= Len(last.before)
        /\ SubSeq(BLOCK_MESSAGES, 1, Len(last.before)) = last.before

\* ---- bindings stripped before activation
KeysOf(items) == {items[i][1] : i \in 1..Len(items)}

\* the keys the claim leaves in an entry of a table at a height
KeysToSerialize(table, items, height) ==
    KeysOf(items)
    \ ((IF table = "issuances" /\ ~enabled("subassets", height)
        THEN {"asset_longname"} ELSE {})
       \cup (IF table = "sends" /\ ~enabled("enhanced_sends", height)
             THEN {"memo"} ELSE {}))

\* C27: the entry of an INSERT or UPDATE with dict bindings on a table outside the
\* skip list serializes every binding, except asset_longname for table issuances
\* while subassets is not activated and memo for table sends while enhanced_sends
\* is not activated; once the feature is activated the field is serialized
C27_StrippedByFeature ==
    (LastExec /\ last.statement.sql.array[1] \in {"insert", "update"}
       /\ last.statement.table \notin skip_tables
       /\ last.statement.bindings.t = "dict")
        => /\ last.outcome = "True"
           /\ Len(BLOCK_MESSAGES) = Len(last.before) + 1
           /\ KeysOf(BLOCK_MESSAGES[Len(BLOCK_MESSAGES)][3])
                 = KeysToSerialize(last.statement.table, last.statement.bindings.items,
                                   last.block_index)

\* what does hold: lines 63-75 strip exactly these fields, and the dict of the
\* one statement that reaches them, an UPDATE of orders, is serialized whole
C27_StrippingItself ==
    /\ \A st \in Statements, h \in 1..ENHANCED_SENDS_START :
          st.bindings.t = "dict" =>
              KeysOf(StrippedBindings(st.table, st.bindings, h))
                  = KeysToSerialize(st.table, st.bindings.items, h)
    /\ (LastExec /\ last.outcome = "True" /\ last.statement.bindings.t = "dict"
          /\ Len(BLOCK_MESSAGES) > Len(last.before))
           => /\ last.statement.table \notin {"issuances", "sends"}
              /\ KeysOf(BLOCK_MESSAGES[Len(BLOCK_MESSAGES)][3])
                    = KeysOf(last.statement.bindings.items)

\* ---- the indexer processes
Following == {p \in Procs : indexer[p].pc = "following"}

\* C28: at most one indexer follows the blocks of a database: a process that is
\* initialised and started while another one is following fails to take the lock
\* and stops, so it never follows a block and never writes one
C28_OneIndexer ==
    /\ Cardinality(Following) <= 1
    /\ (last.kind \in {"initialise", "start_all"}
          /\ \E q \in Procs \ {last.proc} : last.indexer[q].pc = "following")
           => indexer[last.proc].pc = "exited"

\* ---- signals
LastSignal == last.kind = "signal"

\* the rows of a block are all there with the indexed flag, or none is there
WholeOrAbsent(row) == row = IndexedRow \/ row = NoBlockRow

\* C29: when SIGINT or SIGTERM ends a process, the writes its connection had
\* not committed are in the database, and no block is left in the database
\* with a part of its rows or without the indexed flag
C29_StopAtBoundary ==
    LastSignal =>
        /\ LET was == last.indexer[last.proc]
           IN  was.pending /= <<>> =>
                   db_rows = Committed(last.rows, was.block, was.pending)
        /\ \A h \in DOMAIN db_rows : WholeOrAbsent(db_rows[h])

\* what does hold: a process that restarts takes the block after the last indexed
\* one, after the rows of a block left without the indexed flag are purged
C29_RestartPurges ==
    (last.kind = "follow") =>
        LET h == indexer[last.proc].block
            found == last_db_index(last.rows)
        IN  /\ db_rows[h - 1].indexed = 1
            /\ h = IF last.rows[found].indexed = 1 THEN found + 1 ELSE found
            /\ last.rows[found].indexed /= 1 => db_rows[found] = NoBlockRow

\* ---- ledger validation
LastValidate == last.kind = "validate"

HashMismatch == LastValidate /\ ~last.api.raised /\ last.api.hash /= last.ledger_hash

\* C30: for every response of the oracle whose hash differs from the local one
\* (same entries, different entries, different order),
\* validate_src20_ledger_hash returns to its caller and the process goes on
C30_MismatchNotFatal ==
    HashMismatch => last.result.outcome = "returns" /\ ~raised

\* what does hold: with two well-formed ledgers the function returns exactly when
\* the two strings hold the same set of entries, in whatever order and however
\* often; otherwise it ends the process with sys.exit()
C30_ExitsOnDifferentEntries ==
    (HashMismatch /\ last.result.outcome \in {"returns", "SystemExit"}) =>
        /\ last.result.outcome = "returns"
              <=> SetOf(Split(last.valid_src20_str, ";")) = SetOf(Split(last.api.validation, ";"))
        /\ last.result.outcome = "returns" => last.result.value /\ last.result.differences = {}

\* no response and equal hashes return
C30_NoMismatchReturns ==
    (LastValidate /\ ~HashMismatch) =>
        /\ last.result.outcome = "returns"
        /\ last.result.value = ~last.api.raised

\* sys.exit() on two ledgers that hold the same balances
C30_ExitOnSpelling ==
    HashMismatch /\ last.result.outcome = "SystemExit" /\ last.result.differences = {}

\* ---- the token JSON of the SVG
LastSvg == last.kind = "svg"

RenderedKeys == [i \in 1..Len(last.pretty_json) |-> last.pretty_json[i][1]]

\* the keys of the token JSON, in the order of str
KeysInOrderOfStr == <<"amt", "lim", "max", "op", "p", "tick">>

Alphabetical(keys) ==
    \A i, j \in 1..Len(keys) :
        i < j => \E a, b \in 1..Len(KeysInOrderOfStr) :
                    a < b /\ KeysInOrderOfStr[a] = keys[i] /\ KeysInOrderOfStr[b] = keys[j]

\* C31 as stated: for DEPLOY, MINT and TRANSFER the token JSON has p, op, tick
\* first and then the remaining keys in alphabetical order
C31_AlphabeticalRest ==
    (LastSvg /\ Upper(last.input_dict.op) \in {"DEPLOY", "MINT", "TRANSFER"}) =>
        /\ Len(RenderedKeys) >= 3
        /\ SubSeq(RenderedKeys, 1, 3) = <<"p", "op", "tick">>
        /\ Alphabetical(SubSeq(RenderedKeys, 4, Len(RenderedKeys)))

\* C31: the token JSON has p, op, tick first (in upper case) and then the
\* remaining keys in the order generate_srcbackground_svg inserts them: max then
\* lim for DEPLOY, amt for MINT and TRANSFER
C31_InsertionOrderRest ==
    (LastSvg /\ Upper(last.input_dict.op) \in {"DEPLOY", "MINT", "TRANSFER"}) =>
        LET d == last.input_dict
            head == << <<"p", "SRC-20">>, <<"op", Upper(d.op)>>, <<"tick", TickUpper(d.tick)>> >>
        IN  last.pretty_json =
                head \o (IF Upper(d.op) = "DEPLOY"
                         THEN << <<"max", d.max>>, <<"lim", d.lim>> >>
                         ELSE << <<"amt", d.amt>> >>)

C31_DeployRendered ==
    LastSvg /\ last.input_dict.op = "deploy" /\ last.input_dict.max = "1000"
    /\ last.input_dict.lim = "10" /\ RenderedKeys = <<"p", "op", "tick", "max", "lim">>

\* ---- the cpid
LastCpid == last.kind = "cpid"

\* the base62 encoding of SHA-256(tx_hash | n), whole
EncodedDigest(tx_hash, n) == base62_encode(sha256(tx_hash \o <<"|">> \o IntToDigits(n)))

\* num * base + digit for an int of DigestSize bytes
RECURSIVE MulAdd(_, _, _)
MulAdd(num, base, digit) ==
    IF num = <<>> THEN <<>>
    ELSE Append(MulAdd(SubSeq(num, 1, Len(num) - 1), base,
                       (num[Len(num)] * base + digit) \div 256),
                (num[Len(num)] * base + digit) % 256)

\* num with leading zero bytes up to DigestSize bytes
Padded(num) == [i \in 1..(DigestSize - Len(num)) |-> 0] \o num

\* the last base62 digit of a digest is its least significant one: it is the
\* remainder of the digest by 62, and the digits before it encode the quotient
LastDigitIsLeast(digest) ==
    LET divided == divmod(digest, Len(characters), <<>>, 0)
    IN  /\ MulAdd(Padded(divided.num), Len(characters), divided.rem) = digest
        /\ base62_encode(digest)
               = base62_encode(divided.num) \o <<characters[divided.rem + 1]>>

\* C32: the cpid of a stamp is the cpid the upstream provided when there is one,
\* else the first 20 characters of the base62 encoding of
\* SHA-256(tx_hash | block_height); the digest is that of tx_hash and
\* block_height whatever else the transaction holds
C32_CpidAssigned ==
    LastCpid =>
        LET digest == SubSeq(EncodedDigest(last.tx.tx_hash, last.tx.block_index), 1, 20)
        IN  /\ last.stamp_hash = digest
            /\ last.tx.cpid /= PyNone => last.cpid = last.tx.cpid
            /\ (last.tx.cpid = PyNone /\ last.module = "src/stamp.py")
                   => last.cpid = PyText(digest)

\* what does hold: the hash is the first 20 characters of the base62 encoding,
\* most significant digit first, of SHA-256 of tx_hash | tx_index in
\* src/stamp.py and of tx_hash | block_index in index_core/stamp.py, and
\* src/stamp.py takes it for the cpid of a stamp without one
C32_HashOfTxIndex ==
    LastCpid =>
        LET n == IF last.module = "src/stamp.py" THEN last.tx.tx_index ELSE last.tx.block_index
            encoded == EncodedDigest(last.tx.tx_hash, n)
        IN  /\ Len(last.stamp_hash) = 20
            /\ last.stamp_hash = SubSeq(encoded, 1, 20)
            /\ LastDigitIsLeast(sha256(last.tx.tx_hash \o <<"|">> \o IntToDigits(n)))
            /\ last.tx.cpid /= PyNone => last.cpid = last.tx.cpid
            /\ (last.tx.cpid = PyNone /\ last.module = "src/stamp.py")
                   => last.cpid = PyText(last.stamp_hash)

\* ---- the running balances at the end of a block
\* the record i of the committed block names (t, a) with a running balance
NamesBalance(i, t, a) ==
    LET d == last.shadow[i]
    IN  /\ d.valid = 1 /\ d.tick = t
        /\ \/ d.creator = a /\ "total_balance_creator" \in d.keys
           \/ d.destination = a /\ "total_balance_destination" \in d.keys

\* the most recent record of the committed block that names (t, a)
MostRecent(t, a) ==
    CHOOSE i \in 1..Len(last.shadow) :
        NamesBalance(i, t, a) /\ \A j \in (i + 1)..Len(last.shadow) : ~NamesBalance(j, t, a)

\* the running balances that record i holds for a equal amt
RunningBalanceIs(i, a, amt) ==
    LET d == last.shadow[i]
    IN  /\ (d.creator = a /\ "total_balance_creator" \in d.keys)
              => d.total_balance_creator = amt
        /\ (d.destination = a /\ "total_balance_destination" \in d.keys)
              => d.total_balance_destination = amt

\* C33: at the end of a block, for every (tick, address) touched by a valid
\* operation, the running balance of the most recent valid record that names it
\* is the balance that update_src20_balances commits for the row, also when a
\* TRANSFER has creator = destination
C33_RunningIsCommitted ==
    LastCommit =>
        \A t \in Ticks, a \in Addrs :
            (TouchedByBlock(t, a) /\ \E i \in 1..Len(last.shadow) : NamesBalance(i, t, a))
                => RunningBalanceIs(MostRecent(t, a), a, balances[t][a].amt)

IsSelfTransfer(d) == d.valid = 1 /\ d.op = "TRANSFER" /\ d.creator = d.destination

\* what does hold: in a block with one touching record for (t, a) that is not a
\* self-transfer, the running balance of the record is the committed balance
C33_SingleRecord ==
    LastCommit =>
        \A t \in Ticks, a \in Addrs :
            LET touching == {i \in 1..Len(last.shadow) : NamesBalance(i, t, a)}
            IN  (Cardinality(touching) = 1
                   /\ \A i \in touching : ~IsSelfTransfer(last.shadow[i]))
                  => RunningBalanceIs(MostRecent(t, a), a, balances[t][a].amt)

\* the self-transfer of a block records amt less for its creator and amt more for
\* its destination, and the commit leaves the row as it was
C33_SelfTransferRecorded ==
    LastCommit =>
        \A t \in Ticks, a \in Addrs :
            LET touching == {i \in 1..Len(last.shadow) : NamesBalance(i, t, a)}
            IN  (Cardinality(touching) = 1
                   /\ \A i \in touching : IsSelfTransfer(last.shadow[i]))
                  => /\ balances[t][a].amt = last.balances[t][a].amt
                     /\ \A i \in touching :
                          /\ last.shadow[i].total_balance_creator
                                = balances[t][a].amt - last.shadow[i].amt
                          /\ last.shadow[i].total_balance_destination
                                = balances[t][a].amt + last.shadow[i].amt

\* ---- supply
RECURSIVE SumOfRows(_, _)
SumOfRows(rows, addresses) ==
    IF addresses = {} THEN 0
    ELSE LET a == CHOOSE a \in addresses : TRUE
         IN  (IF rows[a].present THEN rows[a].amt ELSE 0) + SumOfRows(rows, addresses \ {a})

\* the sum of amt over the balance rows of a tick
SupplyOf(bal, t) == SumOfRows(bal[t], Addrs)

\* C34: in every state the balance rows of a tick sum to the cumulative amt of
\* the tick's valid MINTs, zero rows purged or not; a block commit changes the sum
\* by the amt of the valid MINTs of the block, so that the valid TRANSFERs of the
\* block leave it as it was
C34_SupplyConserved ==
    /\ \A t \in Ticks : SupplyOf(balances, t) = src20_valid_minted[t]
    /\ LastCommit =>
         \A t \in Ticks :
             SupplyOf(balances, t) - SupplyOf(last.balances, t)
                 = SumValidMints(last.shadow, t, Len(last.shadow))

\* a block with a valid MINT and a valid TRANSFER between two addresses is committed
C34_Witness ==
    /\ LastCommit
    /\ \E i, j \in 1..Len(last.shadow) :
         /\ last.shadow[i].valid = 1 /\ last.shadow[i].op = "MINT" /\ last.shadow[i].amt > 0
         /\ last.shadow[j].valid = 1 /\ last.shadow[j].op = "TRANSFER"
         /\ last.shadow[j].amt > 0 /\ last.shadow[j].creator /= last.shadow[j].destination
         /\ last.shadow[i].tick = last.shadow[j].tick
         /\ SupplyOf(balances, last.shadow[i].tick) > 0

\* ---- the amt of a valid record
\* C35: a MINT or TRANSFER with amt 0 is rejected with NA, and every MINT or
\* TRANSFER marked valid has amt > 0, whatever max and lim of the deploy: no
\* clamping of a MINT gives a valid record with amt 0
C35_ValidMovesPositive ==
    (LastOp /\ last.input.op \in {"MINT", "TRANSFER"}) =>
        /\ last.input.amt = 0 => (LastRec.status = "NA" /\ LastRec.valid = 0)
        /\ LastRec.valid = 1 => LastRec.amt > 0

\* what does hold: amt 0 is rejected with NA, a valid TRANSFER has amt > 0, and a
\* valid MINT has amt 0 only when the deploy it read has max 0 or lim 0
C35_ZeroOnlyByZeroCap ==
    (LastOp /\ last.input.op \in {"MINT", "TRANSFER"}) =>
        /\ last.input.amt = 0 => (LastRec.status = "NA" /\ LastRec.valid = 0)
        /\ (LastRec.valid = 1 /\ last.input.op = "TRANSFER") => LastRec.amt > 0
        /\ (LastRec.valid = 1 /\ last.input.op = "MINT") =>
              /\ LastRec.amt >= 0
              /\ LastRec.amt = 0 => (last.p.deploy_max = 0 \/ last.p.deploy_lim = 0)

\* ---------------------------------------------------------------- C36
\* the last payload was a DEPLOY that the processor marked valid
ValidDeploy ==
    /\ last.kind = "op"
    /\ ~last.p.raised
    /\ LastRec.op = "DEPLOY"
    /\ LastRec.valid = 1

\* the payload carried the key with a value that is a number in [0, 2^64 - 1]
CarriesNumber(value) ==
    /\ value.t \in {"text", "int"}
    /\ ~FieldExcluded(value, block_index)
    /\ StrOf(value) /= <<>>

\* C36: every DEPLOY marked valid carries both max and lim, each a number in
\* [0, 2^64 - 1]; a DEPLOY payload that lacks max or lim is never accepted
C36_ValidDeployCarriesMaxLim ==
    ValidDeploy => CarriesNumber(last.raw.max) /\ CarriesNumber(last.raw.lim)

\* what the code does keep: a valid DEPLOY whose payload carries both max and lim
\* has both inside [0, 2^64 - 1] or empty, and no stored max or lim is negative
C36_BothPresentInRange ==
    ValidDeploy =>
        /\ (last.raw.max /= Absent /\ last.raw.lim /= Absent
              => ~FieldExcluded(last.raw.max, block_index)
                 /\ ~FieldExcluded(last.raw.lim, block_index))
        /\ LastRec.max >= None
        /\ LastRec.lim >= None

\* a DEPLOY without max and without lim became the tick's deploy
C36_BareDeployValid ==
    ValidDeploy /\ last.raw.max = Absent /\ last.raw.lim = Absent

\* ---------------------------------------------------------------- C37
\* C37: no stamp record parse_stamp returns is both is_btc_stamp and is_cursed; it
\* carries a stamp number iff exactly one of the two is set, the number of the BTC
\* counter iff is_btc_stamp and the number of the cursed counter iff is_cursed; a
\* record with neither has stamp = None
C37_OneFlagOneNumber ==
    StampReturned =>
        LET row == last.result.stamp_data
            before == last.counters
            btc == row.is_btc_stamp = 1
            cursed == row.is_cursed = 1
        IN  /\ ~(btc /\ cursed)
            /\ (row.stamp /= None) <=> ((btc /\ ~cursed) \/ (cursed /\ ~btc))
            /\ btc <=> (/\ row.stamp /= None
                        /\ row.stamp = before.stamp
                        /\ stamp_counter = [before EXCEPT !.stamp = @ + 1])
            /\ cursed <=> (/\ row.stamp /= None
                           /\ row.stamp = before.cursed
                           /\ stamp_counter = [before EXCEPT !.cursed = @ + 1])
            /\ (~btc /\ ~cursed) => (row.stamp = None /\ stamp_counter = before)

\* an SRC-721 record, which the sub-protocol branch marked is_btc_stamp, came back
\* cursed with the number of the cursed counter, after a BTC stamp was numbered
C37_Witness ==
    /\ StampReturned
    /\ last.result.stamp_data.ident = "SRC-721"
    /\ last.result.stamp_data.is_cursed = 1
    /\ last.result.stamp_data.is_btc_stamp = None
    /\ last.result.stamp_data.stamp = last.counters.cursed
    /\ last.counters.stamp > last.counters.cursed

\* ---------------------------------------------------------------- C38
RECURSIVE Doubling(_, _)
Doubling(first, n) == IF n = 0 THEN <<>> ELSE <<first>> \o Doubling(2 * first, n - 1)

FetchRunning == fetch.pc \in {"round", "sleep", "fetched", "raised"}
FetchFailed(i) == fetch.results[i] = ApiFailure

\* at most 5 rounds; a sleep of 1, 2, 4, 8, 16 seconds after each failed round;
\* the result returned is the first that is not (None, None); the exception is
\* raised after the fifth failed round; after the exception, and without a URL,
\* validate_src20_ledger_hash returns False
C38_Rounds ==
    /\ fetch.rounds <= max_retries
    /\ Len(fetch.results) = fetch.rounds
    /\ fetch.slept = Doubling(1, Cardinality({i \in 1..fetch.rounds : FetchFailed(i)})
                                 - (IF fetch.pc = "sleep" THEN 1 ELSE 0))
    /\ \A i \in 1..(fetch.rounds - 1) : FetchFailed(i)
    /\ fetch.pc = "fetched" /\ fetch.configured
          => /\ ~FetchFailed(fetch.rounds)
             /\ fetch.result = fetch.results[fetch.rounds]
             /\ fetch.result.validation /= <<>>
    /\ fetch.pc = "raised"
          => /\ fetch.rounds = max_retries
             /\ \A i \in 1..max_retries : FetchFailed(i)
             /\ fetch.slept = <<1, 2, 4, 8, 16>>
    /\ fetch.pc = "done" /\ (~fetch.configured \/ FetchFailed(fetch.rounds))
          => /\ fetch.returned = Validated("returns", FALSE, {})
             /\ ~raised

\* C38: oracle validation always terminates: at most 5 rounds of requests, with
\* sleeps of 1, 2, 4, 8, 16 seconds after the failed rounds, the first non-empty
\* result returned, the exception raised after the fifth failed round and
\* turned into False by validate_src20_ledger_hash, as is the missing URL
C38_Terminates == []C38_Rounds /\ (FetchRunning ~> fetch.pc = "done")

\* five failed rounds, the five sleeps, and False returned
C38_Witness ==
    /\ fetch.pc = "done"
    /\ fetch.configured
    /\ fetch.rounds = max_retries
    /\ FetchFailed(max_retries)
    /\ fetch.slept = <<1, 2, 4, 8, 16>>
    /\ fetch.returned.outcome = "returns"
    /\ ~fetch.returned.value

\* ---------------------------------------------------------------- C39
\* C39: the indexed flag of a block is set to 1 only after the stamp rows of the
\* block are inserted and committed, so in every state, also after a process
\* ended between two steps, a block with indexed = 1 has its stamp rows in the
\* stamp table
C39_IndexedHasStamps ==
    /\ \A h \in DOMAIN db_rows : db_rows[h].indexed = 1 => db_rows[h].stamps
    /\ last.kind = "commit_rows" =>
          \A h \in DOMAIN db_rows :
              (last.rows[h].indexed /= 1 /\ db_rows[h].indexed = 1) => last.rows[h].stamps

\* a process ended between the commit of the stamps of a block and the update
\* of its indexed flag, after it had indexed the block before
C39_Witness ==
    /\ LastSignal
    /\ last.indexer[last.proc].block = 2
    /\ last.indexer[last.proc].pending = <<"indexed">>
    /\ db_rows[1] = IndexedRow
    /\ db_rows[2] = BlockRow(TRUE, TRUE, 0, TRUE)

====
